---- MODULE Spec2Model ----
(***************************************************************************)
(* EcoSysX qt-gui core: the EngineClient session state machine             *)
(* (src/qt-gui/src/core/EngineClient.cpp) driving a sidecar process over   *)
(* line-delimited JSON.                                                    *)
(*                                                                         *)
(* The client lives on one thread.  Public slots and signal handlers run   *)
(* to completion from the event loop, except stop(), which blocks in       *)
(* QProcess::waitForFinished(); while it blocks, QProcess delivers the     *)
(* process notifications (started, readyRead, errorOccurred, finished)     *)
(* from inside the wait, so those handlers run nested in stop().  The      *)
(* variable pc records where stop() is blocked.                            *)
(*                                                                         *)
(* What the child writes reaches the client either as whole frames         *)
(* (Deliver) or as the bytes of readyReadStandardOutput, which             *)
(* onReadyReadStdOut decodes, cuts into lines and parses.                  *)
(*                                                                         *)
(* Handlers are operators from a session record to a session record; the   *)
(* record carries the member fields, the QProcess / QTimer state the       *)
(* handler touches, and the signals emitted and transport operations made. *)
(*                                                                         *)
(* m_lastStepIndex and m_commandId are left out: the code reads them only  *)
(* to choose the length of stop()'s grace period and to number log lines,  *)
(* and the model has neither durations nor log texts beyond their kind.    *)
(***************************************************************************)
EXTENDS Integers, Sequences, FiniteSets, TLC

VARIABLES
    m_state,            \* EngineState
    m_currentTick,      \* int
    m_plannedSteps,     \* int
    m_initialized,      \* bool
    m_initPending,      \* bool
    m_pendingConfig,    \* QJsonObject kept by sendInit
    m_lineBuffer,       \* QString: text read from the child and not yet cut into lines
    timerActive,        \* m_startupTimer is armed
    processState,       \* QProcess::state() of m_process
    killed,             \* SIGKILL was sent to the child, which has not died yet
    inflight,           \* per op, the commands written to the child and not yet answered
    pc,                 \* "loop" | "stopWait1" | "stopWait2"
    emitted,            \* signals emitted by the latest handler
    stoppedInCall,      \* stopped() signals emitted so far in the current dispatch
    io,                 \* transport operations of the current dispatch
    last,               \* the latest handler run, with its argument and outcome
    sinceStop,          \* "no" | "returned" | "again" | "settling", see StopReturned
    owed,               \* an init payload was retained for the transport-ready signal
    fed,                \* bytes read since the latest launch, kept by ReadStream only
    dispatched,         \* lines handed to processLine by the latest handler
    stage,              \* how far the behaviour has followed a scripted run, see script
    lifecycle,          \* signals emitted so far by a scripted run, logs and stateChanged apart
    burst,              \* the step commands sent back to back and their answers, see burstNext
    m_buffer,           \* SnapshotBuffer: QVector<SnapshotEntry>, the ring
    m_head,             \* int: the slot the next kept write goes to
    m_size,             \* int: the number of retained entries
    m_maxCapacity,      \* int
    m_downsampleInterval, \* int
    m_downsampleCounter,  \* int
    notified,           \* signals emitted by the latest call on the buffer
    written,            \* the write attempts on the buffer, see Attempt
    called,             \* the latest call on the buffer, see Call
    m_mutex,            \* QMutex: the threads that hold it, see Free
    threads,            \* per thread, the calls on the buffer in progress, innermost last
    stable,             \* the buffer as the writers last left it when they let go of the mutex
    m_connected,        \* EngineInterface: bool
    m_autoReconnect,    \* bool
    m_reconnectAttempts, \* int
    m_messageBuffer,    \* the types of the messages kept for the next connection
    m_pingTimer,        \* m_pingTimer is running
    m_reconnectTimer,   \* m_reconnectTimer is running
    m_socket,           \* QWebSocket::state() of m_socket
    signalled,          \* signals emitted and messages sent by the latest handler
    handled,            \* the latest handler of the interface and its argument
    outage              \* what has happened since connectToEngine or the latest connection

clientVars == <<m_state, m_currentTick, m_plannedSteps, m_initialized,
                m_initPending, m_pendingConfig, m_lineBuffer, timerActive, processState,
                killed, inflight, pc, emitted, stoppedInCall, io, last, sinceStop, owed, fed,
                dispatched, stage, lifecycle, burst>>
bufferVars == <<m_buffer, m_head, m_size, m_maxCapacity, m_downsampleInterval,
                m_downsampleCounter, notified, written, called>>
threadVars == <<m_mutex, threads, stable>>
interfaceVars == <<m_connected, m_autoReconnect, m_reconnectAttempts, m_messageBuffer,
                   m_pingTimer, m_reconnectTimer, m_socket, signalled, handled, outage>>
vars == <<clientVars, bufferVars, threadVars, interfaceVars>>

-----------------------------------------------------------------------------
(* Bounds of the model *)

MaxTick == 1
MaxInFlight == 2
MaxStepArg == 1
\* Longest single read of the child's stdout, and most bytes read per launch.
MaxRead == 2
MaxStream == 4
\* The ceiling of m_lineBuffer, which is 1024 * 1024 in the code, scaled down.
Ceiling == 2
\* Largest capacity and downsample interval asked of the SnapshotBuffer, the
\* capacity it takes when asked for less than 1 (1000 in the code, scaled
\* down), and the most writes made to it.
MaxCap == 2
DefaultCapacity == 3
MaxInterval == 2
MaxWrites == 5
\* Most threads reading the SnapshotBuffer, and deepest nesting of its calls.
MaxReaders == 2
MaxDepth == 2
\* EngineInterface.h 236
MAX_RECONNECT_ATTEMPTS == 5
\* Most connectionFailed signals counted in one outage.
MaxFailed == 2

-----------------------------------------------------------------------------
(* Values *)

EngineStates == {"Idle", "Starting", "Running", "Stepping", "Stopping", "Stopped", "Error"}

\* A JSON field that is missing from an object.
Absent == "absent"
\* data.tick missing (or not a number): QJsonValue::toInt returns its default.
NoTick == -1

Ticks == 0..MaxTick

\* Configurations handed to sendInit: the two fields the code reads.
\* empty is QJsonObject::isEmpty().
Config(ms, ps) == [empty |-> FALSE, maxSteps |-> ms, populationSize |-> ps]
EmptyConfig == [empty |-> TRUE, maxSteps |-> NoTick, populationSize |-> NoTick]
Configs == {EmptyConfig, Config(1, 1), Config(1, 0)}

\* QJsonValue::toInt(def), QJsonValue::toBool(def), toString(def)
toInt(v, def) == IF v = NoTick THEN def ELSE v
toBool(v, def) == IF v = "true" THEN TRUE ELSE IF v = "false" THEN FALSE ELSE def
toString(v, def) == IF v = Absent THEN def ELSE v

\* Inbound frames: {"success":..., "op":..., "data":{"tick":..., "snapshot":{...}}, "error":...}
Frame(su, op, tick, snap, err) ==
    [success |-> su, op |-> op, tick |-> tick, snapshot |-> snap, error |-> err]
NoFrame == Frame(Absent, Absent, NoTick, FALSE, Absent)
OkFrames ==
    {Frame("true", op, t, FALSE, Absent) : op \in {"ping", "init", "step"}, t \in Ticks \cup {NoTick}}
    \cup {Frame("true", "snapshot", NoTick, sn, Absent) : sn \in BOOLEAN}
    \cup {Frame("true", op, NoTick, FALSE, Absent) : op \in {"stop", "hello"}}
FailFrames ==
    {Frame("false", Absent, NoTick, FALSE, err) : err \in {"boom", Absent}}
    \cup {Frame("false", "step", NoTick, FALSE, "boom"), Frame(Absent, "init", NoTick, FALSE, "boom")}
Frames == OkFrames \cup FailFrames

\* Signals
Ev(sig, msg, tick) == [sig |-> sig, msg |-> msg, tick |-> tick]
Started == Ev("started", "", NoTick)
Stopped == Ev("stopped", "", NoTick)
Stepped(t) == Ev("stepped", "", t)
SnapshotReceived == Ev("snapshotReceived", "", NoTick)
Error(m) == Ev("errorOccurred", m, NoTick)
Log(m) == Ev("logMessage", m, NoTick)
StateChanged(st) == Ev("stateChanged", st, NoTick)

\* Commands awaiting their answer: the model counts the init and step
\* commands, whose answers change the session.
NoneInFlight == [init |-> 0, step |-> 0]
InFlight(s) == s.inflight.init + s.inflight.step

\* Transport operations
Write(op, n) == [kind |-> "write", op |-> op, n |-> n]
Terminate == [kind |-> "terminate", op |-> "", n |-> 0]
Kill == [kind |-> "kill", op |-> "", n |-> 0]

\* The latest handler: its name, its outcome or kind of argument, and the
\* argument (a step count, a configuration, a frame's error field).
Arg(h, res, n, cfg, msg) ==
    [h |-> h, res |-> res, n |-> n, cfg |-> cfg, msg |-> msg, data |-> <<>>]
Lbl(h, res) == Arg(h, res, 0, EmptyConfig, "")

Count(seq, P(_)) == Cardinality({i \in 1..Len(seq) : P(seq[i])})
IsError(e) == e.sig = "errorOccurred"
IsStarted(e) == e.sig = "started"
IsStopped(e) == e.sig = "stopped"
IsStepped(e) == e.sig = "stepped"
IsInitWrite(o) == o.kind = "write" /\ o.op = "init"

\* Bytes the child writes to its stdout.  PingText, FailText and ArrayText each
\* stand for a whole JSON text; Lead and Cont are the two bytes of one UTF-8
\* encoded character of a JSON string.
LF == "\n"
Space == " "
PingText == "{\"success\":true,\"op\":\"ping\"}"
FailText == "{\"success\":false,\"error\":\"boom\"}"
ArrayText == "[]"
Lead == "0xC3"
Cont == "0xA9"
Bytes == {LF, Space, PingText, FailText, ArrayText, Lead, Cont}

\* Characters of a QString: the character Lead Cont encodes, and the
\* replacement character.
Decoded == "U+00E9"
Replacement == "U+FFFD"

\* The byte arrays one readAllStandardOutput() can return.
Reads == UNION {[1..n -> Bytes] : n \in 1..MaxRead}

\* Those of a child that writes unpadded JSON texts in ASCII and reports its
\* failures in answers to commands.
PlainReads == UNION {[1..n -> {LF, PingText, ArrayText}] : n \in 1..MaxRead}

\* Reads without a line end.
PartialReads == UNION {[1..n -> {PingText, ArrayText}] : n \in 1..MaxRead}

-----------------------------------------------------------------------------
(* The session record handlers work on *)

Cur ==
    [m_state |-> m_state, m_currentTick |-> m_currentTick,
     m_plannedSteps |-> m_plannedSteps,
     m_initialized |-> m_initialized, m_initPending |-> m_initPending,
     m_pendingConfig |-> m_pendingConfig, m_lineBuffer |-> m_lineBuffer,
     timerActive |-> timerActive,
     processState |-> processState, killed |-> killed,
     inflight |-> inflight, emitted |-> emitted, io |-> io, dispatched |-> dispatched]

Commit(s) ==
    /\ m_state' = s.m_state
    /\ m_currentTick' = s.m_currentTick
    /\ m_plannedSteps' = s.m_plannedSteps
    /\ m_initialized' = s.m_initialized
    /\ m_initPending' = s.m_initPending
    /\ m_pendingConfig' = s.m_pendingConfig
    /\ m_lineBuffer' = s.m_lineBuffer
    /\ timerActive' = s.timerActive
    /\ processState' = s.processState
    /\ killed' = s.killed
    /\ inflight' = s.inflight
    /\ emitted' = s.emitted
    /\ io' = s.io
    /\ dispatched' = s.dispatched

emit(s, e) == [s EXCEPT !.emitted = Append(@, e)]

-----------------------------------------------------------------------------
(* EngineClient: helpers *)

\* EngineClient::setState: stateChanged is emitted only on a change.
setState(s, newState) ==
    IF s.m_state # newState
    THEN emit([s EXCEPT !.m_state = newState], StateChanged(newState))
    ELSE s

\* EngineClient::isRunning
isRunning(s) == s.m_state = "Running" \/ s.m_state = "Stepping"

\* EngineClient::sendMessage: refuses when the child is not running, otherwise
\* writes the line (QProcess::write buffers the whole line).
sendMessage(s, op, n) ==
    IF s.processState # "Running"
    THEN emit(s, Error("Cannot send message: engine process not running"))
    ELSE [s EXCEPT !.io = Append(@, Write(op, n)),
                   !.inflight = IF op \in DOMAIN @ THEN [@ EXCEPT ![op] = @ + 1] ELSE @]

\* QProcess::start: a warning and nothing else unless the process is NotRunning.
processStart(s) ==
    IF s.processState = "NotRunning"
    THEN [s EXCEPT !.processState = "Starting", !.killed = FALSE, !.inflight = NoneInFlight]
    ELSE s

\* QProcess::terminate / QProcess::kill: a signal to a live child, nothing otherwise.
\* SIGTERM may be handled or ignored by the child: it decides nothing here.
processTerminate(s) == [s EXCEPT !.io = Append(@, Terminate)]

processKill(s) ==
    LET s1 == [s EXCEPT !.io = Append(@, Kill)]
    IN IF s.processState # "NotRunning" THEN [s1 EXCEPT !.killed = TRUE] ELSE s1

-----------------------------------------------------------------------------
(* EngineClient: public slots *)

\* EngineClient::start.  target: "ok", "unset" (m_sidecarScript empty) or
\* "missing" (the file does not exist).
\* The resets of start without the clearing of the line buffer.
startResetsKeepingBuffer(s) ==
    [s EXCEPT !.m_initialized = FALSE, !.m_initPending = FALSE, !.m_currentTick = 0,
              !.m_plannedSteps = 0]

startResets(s) ==
    [s EXCEPT !.m_initialized = FALSE, !.m_initPending = FALSE, !.m_currentTick = 0,
              !.m_plannedSteps = 0, !.m_lineBuffer = <<>>]

start(s, target) ==
    IF s.m_state = "Running" \/ s.m_state = "Stepping"
    THEN emit(s, Log("Engine already running"))
    ELSE IF s.m_state = "Starting"
    THEN emit(s, Log("Engine already starting"))
    ELSE IF target = "unset"
    THEN setState(emit(s, Error("Sidecar script path not set")), "Error")
    ELSE IF target = "missing"
    THEN setState(emit(s, Error("Sidecar script not found")), "Error")
    ELSE LET s1 == startResets(s)
             s2 == emit(setState(s1, "Starting"), Log("Starting engine"))
             s3 == processStart(s2)
         IN [s3 EXCEPT !.timerActive = TRUE]

startOutcome(s, target) ==
    IF s.m_state \in {"Running", "Stepping", "Starting"} THEN "noop"
    ELSE IF target # "ok" THEN "failed" ELSE "launched"

\* EngineClient::sendStop
sendStop(s) == sendMessage(emit(s, Log("Sending stop command")), "stop", 0)

\* The validation of sendInit leaving the state as it is when it fails.
sendInitValidateKeepingState(s, config) ==
    LET maxSteps == toInt(config.maxSteps, 0)
        populationSize == toInt(config.populationSize, 0)
        s1 == emit(s, Log("Init requested"))
    IN IF maxSteps <= 0
       THEN [emit(s1, Error("Invalid configuration: maxSteps")) EXCEPT !.m_initPending = FALSE]
       ELSE IF populationSize <= 0
       THEN [emit(s1, Error("Invalid configuration: populationSize"))
                EXCEPT !.m_initPending = FALSE]
       ELSE LET s2 == [s1 EXCEPT !.m_plannedSteps = maxSteps]
            IN IF s2.m_state = "Idle" \/ s2.m_state = "Stopped" \/ s2.m_state = "Starting"
               THEN emit(s2, Log("Process not ready, init will be sent when started"))
               ELSE sendMessage(emit(s2, Log("Sending init command to engine")), "init", 0)

\* The validation of sendInit leaving m_initPending set when it fails.
sendInitValidateKeepingPending(s, config) ==
    LET maxSteps == toInt(config.maxSteps, 0)
        populationSize == toInt(config.populationSize, 0)
        s1 == emit(s, Log("Init requested"))
    IN IF maxSteps <= 0
       THEN setState(emit(s1, Error("Invalid configuration: maxSteps")), "Error")
       ELSE IF populationSize <= 0
       THEN setState(emit(s1, Error("Invalid configuration: populationSize")), "Error")
       ELSE LET s2 == [s1 EXCEPT !.m_plannedSteps = maxSteps]
            IN IF s2.m_state = "Idle" \/ s2.m_state = "Stopped" \/ s2.m_state = "Starting"
               THEN emit(s2, Log("Process not ready, init will be sent when started"))
               ELSE sendMessage(emit(s2, Log("Sending init command to engine")), "init", 0)

\* EngineClient::sendInit
sendInitValidate(s, config) ==
    LET maxSteps == toInt(config.maxSteps, 0)
        populationSize == toInt(config.populationSize, 0)
        s1 == emit(s, Log("Init requested"))
    IN IF maxSteps <= 0
       THEN setState([emit(s1, Error("Invalid configuration: maxSteps"))
                        EXCEPT !.m_initPending = FALSE], "Error")
       ELSE IF populationSize <= 0
       THEN setState([emit(s1, Error("Invalid configuration: populationSize"))
                        EXCEPT !.m_initPending = FALSE], "Error")
       ELSE LET s2 == [s1 EXCEPT !.m_plannedSteps = maxSteps]
            IN IF s2.m_state = "Idle" \/ s2.m_state = "Stopped" \/ s2.m_state = "Starting"
               THEN emit(s2, Log("Process not ready, init will be sent when started"))
               ELSE sendMessage(emit(s2, Log("Sending init command to engine")), "init", 0)

sendInit(s, config) ==
    IF s.m_initialized
    THEN emit(s, Log("Engine already initialized, skipping duplicate init"))
    ELSE IF s.m_initPending
    THEN emit(s, Log("Init already pending, skipping duplicate init"))
    ELSE sendInitValidate([s EXCEPT !.m_pendingConfig = config, !.m_initPending = TRUE],
                          config)

sendInitOutcome(s, config) ==
    IF s.m_initialized \/ s.m_initPending THEN "rejected"
    ELSE IF toInt(config.maxSteps, 0) <= 0 \/ toInt(config.populationSize, 0) <= 0
    THEN "invalid"
    ELSE IF s.m_state \in {"Idle", "Stopped", "Starting"} THEN "retained"
    ELSE "sent"

\* sendStep refusing a command while another step is awaiting its answer.
sendStepRunningOnly(s, steps) ==
    IF ~s.m_initialized
    THEN emit(s, Error("Cannot send step: engine not initialized"))
    ELSE IF s.m_state # "Running"
    THEN emit(s, Error("Cannot send step: engine not running"))
    ELSE IF steps <= 0
    THEN emit(s, Error("Invalid step count"))
    ELSE sendMessage(setState(emit(s, Log("Step command")), "Stepping"), "step", steps)

\* sendStep without its check of the step count.
sendStepAnyCount(s, steps) ==
    IF ~s.m_initialized
    THEN emit(s, Error("Cannot send step: engine not initialized"))
    ELSE IF ~isRunning(s)
    THEN emit(s, Error("Cannot send step: engine not running"))
    ELSE sendMessage(setState(emit(s, Log("Step command")), "Stepping"), "step", steps)

\* EngineClient::sendStep
sendStep(s, steps) ==
    IF ~s.m_initialized
    THEN emit(s, Error("Cannot send step: engine not initialized"))
    ELSE IF ~isRunning(s)
    THEN emit(s, Error("Cannot send step: engine not running"))
    ELSE IF steps <= 0
    THEN emit(s, Error("Invalid step count"))
    ELSE sendMessage(setState(emit(s, Log("Step command")), "Stepping"), "step", steps)

\* EngineClient::requestSnapshot
requestSnapshot(s) ==
    IF ~s.m_initialized THEN s
    ELSE IF ~isRunning(s) THEN s
    ELSE sendMessage(s, "snapshot", 0)

-----------------------------------------------------------------------------
(* EngineClient: signal handlers *)

\* onProcessStarted announcing started() on both branches.
onProcessStartedAnnouncing(s) ==
    LET s1 == emit([s EXCEPT !.timerActive = FALSE], Log("Engine process started successfully"))
    IN IF s1.m_initPending /\ ~s1.m_pendingConfig.empty
       THEN emit(sendMessage(emit(setState(s1, "Running"), Log("Sending pending init command")),
                             "init", 0), Started)
       ELSE emit(setState(s1, "Running"), Started)

\* EngineClient::onProcessStarted
onProcessStarted(s) ==
    LET s1 == emit([s EXCEPT !.timerActive = FALSE], Log("Engine process started successfully"))
    IN IF s1.m_initPending /\ ~s1.m_pendingConfig.empty
       THEN sendMessage(emit(setState(s1, "Running"), Log("Sending pending init command")),
                        "init", 0)
       ELSE emit(setState(s1, "Running"), Started)

\* EngineClient::onProcessFinished(exitCode, exitStatus); crashed is
\* exitStatus == QProcess::CrashExit.
onProcessFinished(s, exitCode, crashed) ==
    LET s0 == [s EXCEPT !.timerActive = FALSE]
        wasError == IF crashed THEN s0.m_state # "Stopping" ELSE exitCode # 0
        s1 == IF crashed
              THEN IF s0.m_state = "Stopping"
                   THEN emit(s0, Log("Engine terminated by supervisor"))
                   ELSE emit(s0, Error("Engine crashed unexpectedly"))
              ELSE IF exitCode # 0
                   THEN emit(s0, Error("Engine exited with non-zero code"))
                   ELSE emit(s0, Log("Engine stopped normally"))
        s2 == IF wasError THEN setState(s1, "Error") ELSE setState(s1, "Stopped")
    IN emit([s2 EXCEPT !.m_initialized = FALSE, !.m_initPending = FALSE], Stopped)

\* EngineClient::onProcessError
onProcessError(s, error) ==
    LET s1 == emit([s EXCEPT !.timerActive = FALSE], Error(error))
    IN setState(emit(s1, Log("Process error")), "Error")

\* onStartupTimeout without its check of the state.
onStartupTimeoutAnyState(s) ==
    setState(processKill(emit([s EXCEPT !.timerActive = FALSE], Error("Engine startup timeout"))),
             "Error")

\* EngineClient::onStartupTimeout (the single-shot timer has fired)
onStartupTimeout(s) ==
    LET s0 == [s EXCEPT !.timerActive = FALSE]
    IN IF s0.m_state = "Starting"
       THEN setState(processKill(emit(s0, Error("Engine startup timeout"))), "Error")
       ELSE s0

\* The failure branch leaving m_initPending as it was.
handleFailureKeepsPending(s, json) ==
    LET error == toString(json.error, "Unknown engine error")
        s1 == emit(emit(s, Log("Engine error")), Error(error))
        s2 == setState(s1, "Error")
    IN [s2 EXCEPT !.m_initialized = FALSE]

\* EngineClient::handleResponse, failure branch
handleFailure(s, json) ==
    LET error == toString(json.error, "Unknown engine error")
        s1 == emit(emit(s, Log("Engine error")), Error(error))
        s2 == setState(s1, "Error")
    IN [s2 EXCEPT !.m_initialized = FALSE, !.m_initPending = FALSE]

\* EngineClient::handleResponse, op == "ping"
handlePing(s, json) ==
    LET s1 == [s EXCEPT !.m_currentTick = toInt(json.tick, s.m_currentTick)]
        s2 == IF s1.m_state = "Starting" THEN setState(s1, "Running") ELSE s1
    IN emit(s2, Stepped(s2.m_currentTick))

\* EngineClient::handleResponse, op == "init"
handleInit(s, json) ==
    LET s1 == [s EXCEPT !.m_currentTick = toInt(json.tick, 0), !.m_initialized = TRUE,
                        !.m_initPending = FALSE]
        s2 == emit(s1, Log("Engine initialized"))
        s3 == IF s2.m_plannedSteps <= 0 THEN emit(s2, Log("Empty run plan")) ELSE s2
        s4 == setState(s3, "Running")
    IN emit(emit(s4, Stepped(s4.m_currentTick)), Started)

\* EngineClient::handleResponse, op == "step"
handleStep(s, json) ==
    LET s1 == [s EXCEPT !.m_currentTick = toInt(json.tick, s.m_currentTick)]
        s2 == setState(emit(s1, Log("Step complete")), "Running")
    IN emit(s2, Stepped(s2.m_currentTick))

\* EngineClient::handleResponse
handleResponse(s, json) ==
    LET success == toBool(json.success, FALSE)
        op == toString(json.op, "")
    IN IF ~success THEN handleFailure(s, json)
       ELSE IF op = "ping" THEN handlePing(s, json)
       ELSE IF op = "init" THEN handleInit(s, json)
       ELSE IF op = "step" THEN handleStep(s, json)
       ELSE IF op = "snapshot"
       THEN IF json.snapshot THEN emit(s, SnapshotReceived) ELSE s
       ELSE IF op = "stop"
       THEN emit(setState(s, "Stopped"), Log("Engine acknowledged stop command"))
       ELSE emit(s, Log("Unhandled response op"))

-----------------------------------------------------------------------------
(* EngineClient: reading the child's stdout *)

\* QString::fromUtf8 of one byte array: each call decodes on its own, so the
\* bytes of a character cut by the end of the array become replacement characters.
RECURSIVE fromUtf8(_)
fromUtf8(data) ==
    IF data = <<>> THEN <<>>
    ELSE IF Head(data) = Lead
    THEN IF Len(data) >= 2 /\ data[2] = Cont
         THEN <<Decoded>> \o fromUtf8(Tail(Tail(data)))
         ELSE <<Replacement>> \o fromUtf8(Tail(data))
    ELSE IF Head(data) = Cont
    THEN <<Replacement>> \o fromUtf8(Tail(data))
    ELSE <<Head(data)>> \o fromUtf8(Tail(data))

\* QString::indexOf('\n'): 0 stands for -1, positions count from 1.
RECURSIVE indexOf(_, _)
indexOf(str, ch) ==
    IF str = <<>> THEN 0
    ELSE IF Head(str) = ch THEN 1
    ELSE LET i == indexOf(Tail(str), ch) IN IF i = 0 THEN 0 ELSE i + 1

\* QString::trimmed
RECURSIVE trimmedLeft(_)
trimmedLeft(str) ==
    IF str # <<>> /\ Head(str) = Space THEN trimmedLeft(Tail(str)) ELSE str

RECURSIVE trimmedRight(_)
trimmedRight(str) ==
    IF str # <<>> /\ str[Len(str)] = Space
    THEN trimmedRight(SubSeq(str, 1, Len(str) - 1))
    ELSE str

trimmed(str) == trimmedRight(trimmedLeft(str))

\* QJsonDocument::fromJson of a line: kind is "error" for a parse error,
\* "array" for a document that is no object, "object" with the object otherwise.
fromJson(line) ==
    IF line = <<PingText>>
    THEN [kind |-> "object", object |-> Frame("true", "ping", NoTick, FALSE, Absent)]
    ELSE IF line = <<FailText>>
    THEN [kind |-> "object", object |-> Frame("false", Absent, NoTick, FALSE, "boom")]
    ELSE IF line = <<ArrayText>> THEN [kind |-> "array", object |-> NoFrame]
    ELSE [kind |-> "error", object |-> NoFrame]

\* processLine treating a malformed line as fatal.
processLineStopping(s, line) ==
    LET doc == fromJson(line)
        s1 == [s EXCEPT !.dispatched = Append(@, line)]
    IN IF doc.kind = "error" THEN setState(emit(s1, Error("JSON parse error")), "Error")
       ELSE IF doc.kind = "array"
       THEN setState(emit(s1, Error("Expected JSON object from engine")), "Error")
       ELSE handleResponse(s1, doc.object)

\* EngineClient::processLine
processLine(s, line) ==
    LET doc == fromJson(line)
        s1 == [s EXCEPT !.dispatched = Append(@, line)]
    IN IF doc.kind = "error" THEN emit(s1, Error("JSON parse error"))
       ELSE IF doc.kind = "array" THEN emit(s1, Error("Expected JSON object from engine"))
       ELSE handleResponse(s1, doc.object)

\* EngineClient::onReadyReadStdOut, the loop over the complete lines
RECURSIVE processCompleteLines(_)
processCompleteLines(s) ==
    LET pos == indexOf(s.m_lineBuffer, LF)
    IN IF pos = 0 THEN s
       ELSE LET line == trimmed(SubSeq(s.m_lineBuffer, 1, pos - 1))
                s1 == [s EXCEPT !.m_lineBuffer = SubSeq(@, pos + 1, Len(@))]
            IN processCompleteLines(IF line # <<>> THEN processLine(s1, line) ELSE s1)

\* onReadyReadStdOut without the ceiling on the line buffer.
onReadyReadStdOutUnbounded(s, data) ==
    processCompleteLines([s EXCEPT !.m_lineBuffer = @ \o fromUtf8(data)])

\* EngineClient::onReadyReadStdOut; data is what readAllStandardOutput() returns.
onReadyReadStdOut(s, data) ==
    LET s1 == [s EXCEPT !.m_lineBuffer = @ \o fromUtf8(data)]
        s2 == processCompleteLines(s1)
    IN IF Len(s2.m_lineBuffer) > Ceiling
       THEN [emit(s2, Error("Line buffer overflow - possible protocol error"))
               EXCEPT !.m_lineBuffer = <<>>]
       ELSE s2

-----------------------------------------------------------------------------
(* EngineClient::stop, cut at its two blocking waits *)

\* The early return taken in Idle only.
stopIsNoopIdleOnly(s) == s.m_state = "Idle"

\* The early return of stop().
stopIsNoop(s) == s.m_state = "Idle" \/ s.m_state = "Stopped"

\* Up to the first waitForFinished(timeout).
stopBegin(s) ==
    LET s1 == emit(setState(s, "Stopping"), Log("Stopping engine"))
    IN IF s1.m_initialized /\ isRunning(s1) THEN sendStop(s1) ELSE s1

\* After the second waitForFinished(1000) returned `finished`.
stopAfterWait2(s, finished) ==
    LET s1 == IF finished THEN s
              ELSE processKill(emit(s, Log("Terminate failed, killing process")))
    IN setState(s1, "Stopped")

\* After the first waitForFinished(timeout) returned FALSE, up to the second wait.
stopEscalate(s) == processTerminate(emit(s, Log("Graceful stop timeout, terminating process")))

\* After the first waitForFinished(timeout) returned TRUE.
stopClean(s) == setState(emit(s, Log("Engine stopped cleanly")), "Stopped")

\* The whole of stop() when no wait can block: waitForFinished returns false at
\* once on a process that is NotRunning.
stopNoWait(s) == stopAfterWait2(stopEscalate(s), FALSE)

-----------------------------------------------------------------------------
(* Bookkeeping shared by the actions *)

\* The session record a handler starts from.  Every handler starts a fresh
\* record of signals; a dispatch from the event loop starts a fresh record of
\* transport operations, which a handler nested in stop() continues.
Entry ==
    [Cur EXCEPT !.emitted = <<>>, !.dispatched = <<>>, !.io = IF pc = "loop" THEN <<>> ELSE @]

\* A frame answers a command when it names the op of a command that is
\* awaiting its answer.
Answers(f) == f.op \in DOMAIN inflight /\ inflight[f.op] > 0

\* The scripted runs.  A run of the workflow: start(), the child starts,
\* sendInit(valid) (before or after the child starts), the init is answered with
\* success, sendStep(1), the step is answered with success and a tick > 0,
\* requestSnapshot(), a snapshot with a payload arrives, stop(), stop() returns
\* and the child exits.  A refused run: start(), the child starts (an init may
\* have been retained), and the first frame is the failure "boom".  Any step
\* that is not the next one of a script leaves the scripts for good.
script(st, l, f) ==
    CASE st = "begin" /\ l.h = "start" /\ l.res = "launched" -> "launched"
      [] st = "launched" /\ l.h = "onProcessStarted" -> "ready"
      [] st = "launched" /\ l.h = "sendInit" /\ l.res = "retained" -> "launchedInit"
      [] st = "launchedInit" /\ l.h = "onProcessStarted" -> "initSent"
      [] st = "ready" /\ l.h = "sendInit" /\ l.res = "sent" -> "initSent"
      [] st \in {"ready", "initSent"} /\ l.h = "handleResponse" /\ l.res = "failure"
            /\ l.msg = "boom" -> "refused"
      [] st = "initSent" /\ l.h = "handleResponse" /\ l.res = "init" /\ Answers(f) -> "inited"
      [] st = "inited" /\ l.h = "sendStep" /\ l.n = 1 -> "stepSent"
      [] st = "stepSent" /\ l.h = "handleResponse" /\ l.res = "step" /\ Answers(f)
            /\ f.tick > 0 -> "stepped"
      [] st = "stepped" /\ l.h = "requestSnapshot" -> "snapSent"
      [] st = "snapSent" /\ l.h = "handleResponse" /\ l.res = "snapshot" /\ f.snapshot
            -> "snapped"
      [] st = "snapped" /\ l.h = "stop" /\ l.res = "waiting" -> "stopping"
      [] st = "stopping" /\ l.h = "stop" /\ l.res = "waiting" -> "stopping"
      [] st = "stopping" /\ l.h = "stop" /\ l.res = "done" -> "stopped"
      [] st \in {"stopping", "stopped"} /\ l.h = "onProcessFinished" -> "stopped"
      [] OTHER -> "off"

IsLifecycle(e) == e.sig \notin {"logMessage", "stateChanged"}

-----------------------------------------------------------------------------
(***************************************************************************)
(* EngineInterface (src/qt-gui/src/core/EngineInterface.cpp): the session  *)
(* with the engine server over a QWebSocket, with a heartbeat and with     *)
(* reconnection after the connection is lost.  Its handlers are operators  *)
(* from an interface record to an interface record; the record carries the *)
(* member fields, the state of the socket and of the two timers, and the   *)
(* signals emitted and messages sent by the handler.                       *)
(***************************************************************************)

SocketErrors == {"RemoteHostClosedError", "NetworkError", "ConnectionRefusedError"}
Commands == {"getState", "start", "stop", "step", "snapshot"}
Events == {"pong", "server:shutdown"}

Signal(name) == [sig |-> name]
Sent(type) == [sig |-> "sendTextMessage", type |-> type]
Handled(h, arg) == [h |-> h, arg |-> arg]

\* EngineInterface::EngineInterface
EngineInterface ==
    [m_connected |-> FALSE,
     m_autoReconnect |-> TRUE,
     m_reconnectAttempts |-> 0,
     m_messageBuffer |-> <<>>,
     m_pingTimer |-> FALSE,
     m_reconnectTimer |-> FALSE,
     m_socket |-> "UnconnectedState",
     signalled |-> <<>>]

signal(e, s) == [e EXCEPT !.signalled = @ \o <<s>>]

ifSendMessage(e, type) ==
    IF ~e.m_connected
    THEN IF type # "ping" THEN [e EXCEPT !.m_messageBuffer = @ \o <<type>>] ELSE e
    ELSE signal(e, Sent(type))

\* The loop of onConnected over the buffered messages.
RECURSIVE sendBuffered(_, _)
sendBuffered(e, msgs) ==
    IF msgs = <<>> THEN e ELSE sendBuffered(ifSendMessage(e, Head(msgs)), Tail(msgs))

\* connectToEngine turning auto-reconnect on again.
connectToEngineEnablingReconnect(e) ==
    IF e.m_connected THEN e
    ELSE [signal(e, Signal("logMessage")) EXCEPT !.m_reconnectAttempts = 0,
                                                !.m_autoReconnect = TRUE,
                                                !.m_socket = "ConnectingState"]

connectToEngine(e) ==
    IF e.m_connected THEN e
    ELSE [signal(e, Signal("logMessage")) EXCEPT !.m_reconnectAttempts = 0,
                                                !.m_socket = "ConnectingState"]

\* close() takes a connected socket to ClosingState; its disconnected signal
\* comes later.
ifDisconnect(e) ==
    [e EXCEPT !.m_pingTimer = FALSE,
              !.m_reconnectTimer = FALSE,
              !.m_socket = IF @ = "ConnectedState" THEN "ClosingState" ELSE @,
              !.m_connected = FALSE,
              !.m_reconnectAttempts = 0]

command(e, type) ==
    IF ~e.m_connected THEN signal(e, Signal("errorOccurred")) ELSE ifSendMessage(e, type)

sendPing(e) == IF ~e.m_connected THEN e ELSE ifSendMessage(e, "ping")

scheduleReconnect(e) ==
    [signal(e, Signal("logMessage")) EXCEPT !.m_reconnectAttempts = @ + 1,
                                            !.m_reconnectTimer = TRUE]

attemptReconnect(e) == [e EXCEPT !.m_socket = "ConnectingState"]

\* onConnected without the reset of the attempt counter.
onConnectedKeepingAttempts(e) ==
    LET a == [e EXCEPT !.m_connected = TRUE]
        b == signal(signal(a, Signal("logMessage")), Signal("connected"))
        c == [b EXCEPT !.m_pingTimer = TRUE]
    IN [sendBuffered(c, c.m_messageBuffer) EXCEPT !.m_messageBuffer = <<>>]

onConnected(e) ==
    LET a == [e EXCEPT !.m_connected = TRUE, !.m_reconnectAttempts = 0]
        b == signal(signal(a, Signal("logMessage")), Signal("connected"))
        c == [b EXCEPT !.m_pingTimer = TRUE]
    IN [sendBuffered(c, c.m_messageBuffer) EXCEPT !.m_messageBuffer = <<>>]

onDisconnected(e) ==
    LET a == [e EXCEPT !.m_connected = FALSE, !.m_pingTimer = FALSE]
        b == signal(signal(a, Signal("logMessage")), Signal("disconnected"))
    IN IF b.m_autoReconnect /\ b.m_reconnectAttempts < MAX_RECONNECT_ATTEMPTS
       THEN scheduleReconnect(b)
       ELSE IF b.m_reconnectAttempts >= MAX_RECONNECT_ATTEMPTS
       THEN signal(b, Signal("connectionFailed"))
       ELSE b

onError(e, error) ==
    LET a == signal(e, Signal("errorOccurred")) IN
    IF /\ error \in {"RemoteHostClosedError", "NetworkError"}
       /\ a.m_autoReconnect /\ a.m_reconnectAttempts < MAX_RECONNECT_ATTEMPTS
    THEN scheduleReconnect(a)
    ELSE a

onReconnectTimeout(e) == attemptReconnect([e EXCEPT !.m_reconnectTimer = FALSE])

handleMessage(e, event) ==
    IF event = "server:shutdown"
    THEN [signal(e, Signal("logMessage")) EXCEPT !.m_autoReconnect = FALSE]
    ELSE e

\* std::min
min(a, b) == IF a < b THEN a ELSE b

NoOutage ==
    [lost |-> FALSE, reopened |-> 0, failed |-> 0,
     shutdown |-> FALSE, reenabled |-> FALSE, again |-> FALSE, closed |-> FALSE]

RECURSIVE count(_, _)
count(signals, s) ==
    IF signals = <<>> THEN 0
    ELSE (IF Head(signals) = s THEN 1 ELSE 0) + count(Tail(signals), s)

\* The outage after handler h has left the interface as e: whether an open
\* connection has been lost, how often the socket has been re-opened by
\* attemptReconnect and how often connectionFailed has been emitted (both
\* counted up to a ceiling) since connectToEngine or the latest connection;
\* and, for the whole life of the object, whether server:shutdown has been
\* received, whether setAutoReconnect(true) has been called after it and
\* whether connectToEngine has; and whether disconnect() has been called
\* since the latest connectToEngine.
Noted(e, h, arg) ==
    LET shutdown == outage.shutdown \/ (h = "onTextMessageReceived" /\ arg = "server:shutdown")
        since == [shutdown |-> shutdown,
                  reenabled |-> outage.reenabled
                                   \/ (outage.shutdown /\ h = "setAutoReconnect" /\ e.m_autoReconnect),
                  again |-> outage.again \/ (outage.shutdown /\ h = "connectToEngine"),
                  closed |-> IF h = "connectToEngine" THEN outage.closed /\ m_connected
                             ELSE outage.closed \/ h = "disconnect"]
    IN IF h \in {"connectToEngine", "onConnected"}
       THEN [lost |-> FALSE, reopened |-> 0, failed |-> 0] @@ since
       ELSE [lost |-> outage.lost \/ (m_connected /\ ~e.m_connected /\ h # "disconnect"),
             reopened |-> min(outage.reopened + (IF h = "onReconnectTimeout" THEN 1 ELSE 0),
                              MAX_RECONNECT_ATTEMPTS + 1),
             failed |-> min(outage.failed + count(e.signalled, Signal("connectionFailed")),
                            MaxFailed)] @@ since

IfCur ==
    [m_connected |-> m_connected,
     m_autoReconnect |-> m_autoReconnect,
     m_reconnectAttempts |-> m_reconnectAttempts,
     m_messageBuffer |-> m_messageBuffer,
     m_pingTimer |-> m_pingTimer,
     m_reconnectTimer |-> m_reconnectTimer,
     m_socket |-> m_socket,
     signalled |-> <<>>]

\* The handler h, run with arg, leaves the interface as e.
IfCommit(e, h, arg) ==
    /\ m_connected' = e.m_connected
    /\ m_autoReconnect' = e.m_autoReconnect
    /\ m_reconnectAttempts' = e.m_reconnectAttempts
    /\ m_messageBuffer' = e.m_messageBuffer
    /\ m_pingTimer' = e.m_pingTimer
    /\ m_reconnectTimer' = e.m_reconnectTimer
    /\ m_socket' = e.m_socket
    /\ signalled' = e.signalled
    /\ handled' = Handled(h, arg)
    /\ outage' = Noted(e, h, arg)
    /\ UNCHANGED <<clientVars, bufferVars, threadVars>>

InterfaceConstructed ==
    /\ m_connected = EngineInterface.m_connected
    /\ m_autoReconnect = EngineInterface.m_autoReconnect
    /\ m_reconnectAttempts = EngineInterface.m_reconnectAttempts
    /\ m_messageBuffer = EngineInterface.m_messageBuffer
    /\ m_pingTimer = EngineInterface.m_pingTimer
    /\ m_reconnectTimer = EngineInterface.m_reconnectTimer
    /\ m_socket = EngineInterface.m_socket
    /\ signalled = EngineInterface.signalled
    /\ handled = Handled("EngineInterface", "")
    /\ outage = NoOutage

ConnectToEngine == IfCommit(connectToEngine(IfCur), "connectToEngine", "")
Disconnect == IfCommit(ifDisconnect(IfCur), "disconnect", "")
SetAutoReconnect ==
    \E enabled \in BOOLEAN :
        IfCommit([IfCur EXCEPT !.m_autoReconnect = enabled], "setAutoReconnect", enabled)
Command == \E type \in Commands : IfCommit(command(IfCur, type), "command", type)
\* The public slot, called by the application.
SendPing == IfCommit(sendPing(IfCur), "sendPing", "")

\* The socket has connected.
SocketConnected ==
    /\ m_socket = "ConnectingState"
    /\ IfCommit(onConnected([IfCur EXCEPT !.m_socket = "ConnectedState"]), "onConnected",
                IF m_reconnectAttempts > 0 THEN "reconnect" ELSE "connect")

\* The socket has gone back to UnconnectedState: the peer or the network
\* closed the connection, an attempt to connect failed, or close() is done
\* (arg "closed").
SocketDisconnected ==
    /\ m_socket # "UnconnectedState"
    /\ IfCommit(onDisconnected([IfCur EXCEPT !.m_socket = "UnconnectedState"]),
                "onDisconnected", IF m_socket = "ClosingState" THEN "closed" ELSE "lost")

\* The socket reports an error, before the disconnected signal of the same
\* failure if there is one.
SocketError ==
    /\ m_socket # "UnconnectedState"
    /\ \E error \in SocketErrors : IfCommit(onError(IfCur, error), "onError", error)

TextMessageReceived ==
    /\ m_socket = "ConnectedState"
    /\ \E event \in Events : IfCommit(handleMessage(IfCur, event), "onTextMessageReceived", event)

PingTimeout ==
    /\ m_pingTimer
    /\ IfCommit(sendPing(IfCur), "onPingTimeout", "")

ReconnectTimeout ==
    /\ m_reconnectTimer
    /\ IfCommit(onReconnectTimeout(IfCur), "onReconnectTimeout", "")

-----------------------------------------------------------------------------
(***************************************************************************)
(* SnapshotBuffer (src/qt-gui/src/core/SnapshotBuffer.cpp): a ring of the  *)
(* latest snapshots of the simulation, written by the thread that receives *)
(* them and read by the charts.                                            *)
(*                                                                         *)
(* Its operations are operators from a buffer record to a buffer record;   *)
(* the record carries the member fields and the signals emitted by the     *)
(* call.  Steps and metric values are small integers, a QString is the     *)
(* sequence of its characters, and a metric path is a sequence of tokens:  *)
(* key names and the separator ".".                                        *)
(***************************************************************************)

\* QJsonValue
JDouble(v) == [kind |-> "double", val |-> v]
JString(t) == [kind |-> "string", val |-> t]
JObject(members) == [kind |-> "object", val |-> members]
JNull == [kind |-> "null", val |-> 0]
\* QJsonObject()
EmptyObject == JObject([k \in {} |-> 0])

\* A key of one token, and QJsonObject::operator[]: null for a missing key.
Key(name) == <<name>>
Dot == "."
member(obj, key) == IF key \in DOMAIN obj.val THEN obj.val[key] ELSE JNull

\* QString::split('.'): the parts between the separators, empty parts kept.
RECURSIVE split(_)
split(path) ==
    LET i == indexOf(path, Dot) IN
    IF i = 0 THEN <<path>>
    ELSE <<SubSeq(path, 1, i - 1)>> \o split(SubSeq(path, i + 1, Len(path)))

\* QString::toDouble(&ok) on texts of decimal digits and other characters.
DigitValue == ("0" :> 0) @@ ("1" :> 1) @@ ("2" :> 2)
RECURSIVE decimal(_)
decimal(t) ==
    IF t = <<>> THEN 0
    ELSE 10 * decimal(SubSeq(t, 1, Len(t) - 1)) + DigitValue[t[Len(t)]]
toDouble(t) ==
    IF t # <<>> /\ \A i \in 1..Len(t) : t[i] \in DOMAIN DigitValue
    THEN [ok |-> TRUE, value |-> decimal(t)]
    ELSE [ok |-> FALSE, value |-> 0]

\* The loop of extractValue over the parts of the path: where it stops, and
\* whether it stopped at a value that is not an object.
RECURSIVE descend(_, _)
descend(current, parts) ==
    IF parts = <<>> THEN [found |-> TRUE, current |-> current]
    ELSE IF current.kind # "object" THEN [found |-> FALSE, current |-> current]
    ELSE descend(member(current, Head(parts)), Tail(parts))

extractValue(obj, path) ==
    LET d == descend(obj, split(path)) IN
    IF ~d.found THEN 0
    ELSE IF d.current.kind = "double" THEN d.current.val
    ELSE IF d.current.kind = "string"
    THEN LET value == toDouble(d.current.val) IN IF value.ok THEN value.value ELSE 0
    ELSE 0

\* The % of C++ on int: the quotient is truncated towards zero.
cmod(a, n) == IF a >= 0 THEN a % n ELSE 0 - ((0 - a) % n)

SnapshotEntry(step, data) == [step |-> step, data |-> data]
DefaultEntry == SnapshotEntry(-1, EmptyObject)
DataPoint(step, value) == [step |-> step, value |-> value]

snapshotAdded(step) == [sig |-> "snapshotAdded", step |-> step]
bufferWrapped == [sig |-> "bufferWrapped"]
bufferCleared == [sig |-> "bufferCleared"]

\* SnapshotBuffer::SnapshotBuffer
SnapshotBuffer(maxCapacity) ==
    LET capacity == IF maxCapacity < 1 THEN DefaultCapacity ELSE maxCapacity IN
    [m_buffer |-> [i \in 0..(capacity - 1) |-> DefaultEntry],
     m_head |-> 0,
     m_size |-> 0,
     m_maxCapacity |-> capacity,
     m_downsampleInterval |-> 1,
     m_downsampleCounter |-> 0,
     notified |-> <<>>]

\* setMaxCapacity copying the oldest entries when it shrinks.
setMaxCapacityKeepingOldest(b, capacity) ==
    IF capacity < 1 THEN b
    ELSE IF capacity = b.m_maxCapacity THEN b
    ELSE LET entriesToCopy == min(b.m_size, capacity)
             oldIdx(i) == cmod(b.m_head - b.m_size + i + b.m_maxCapacity, b.m_maxCapacity)
             newBuffer == [i \in 0..(capacity - 1) |->
                              IF i < entriesToCopy THEN b.m_buffer[oldIdx(i)]
                              ELSE DefaultEntry]
         IN [b EXCEPT !.m_buffer = newBuffer,
                      !.m_maxCapacity = capacity,
                      !.m_head = cmod(entriesToCopy, capacity),
                      !.m_size = entriesToCopy]

\* setMaxCapacity leaving the write cursor on the first slot.
setMaxCapacityCursorAtStart(b, capacity) ==
    IF capacity < 1 THEN b
    ELSE IF capacity = b.m_maxCapacity THEN b
    ELSE LET entriesToCopy == min(b.m_size, capacity)
             startIdx == IF b.m_size > capacity THEN b.m_size - capacity ELSE 0
             oldIdx(i) == cmod(b.m_head - b.m_size + startIdx + i + b.m_maxCapacity,
                               b.m_maxCapacity)
             newBuffer == [i \in 0..(capacity - 1) |->
                              IF i < entriesToCopy THEN b.m_buffer[oldIdx(i)]
                              ELSE DefaultEntry]
         IN [b EXCEPT !.m_buffer = newBuffer,
                      !.m_maxCapacity = capacity,
                      !.m_head = 0,
                      !.m_size = entriesToCopy]

setMaxCapacity(b, capacity) ==
    IF capacity < 1 THEN b
    ELSE IF capacity = b.m_maxCapacity THEN b
    ELSE LET entriesToCopy == min(b.m_size, capacity)
             startIdx == IF b.m_size > capacity THEN b.m_size - capacity ELSE 0
             oldIdx(i) == cmod(b.m_head - b.m_size + startIdx + i + b.m_maxCapacity,
                               b.m_maxCapacity)
             newBuffer == [i \in 0..(capacity - 1) |->
                              IF i < entriesToCopy THEN b.m_buffer[oldIdx(i)]
                              ELSE DefaultEntry]
         IN [b EXCEPT !.m_buffer = newBuffer,
                      !.m_maxCapacity = capacity,
                      !.m_head = cmod(entriesToCopy, capacity),
                      !.m_size = entriesToCopy]

setDownsampleInterval(b, interval) ==
    [b EXCEPT !.m_downsampleInterval = IF interval < 1 THEN 1 ELSE interval,
              !.m_downsampleCounter = 0]

\* Whether the write is kept, and the buffer with the counter moved on.
shouldStore(b) ==
    IF b.m_downsampleInterval <= 1 THEN [store |-> TRUE, b |-> b]
    ELSE LET c == [b EXCEPT !.m_downsampleCounter = @ + 1] IN
         IF c.m_downsampleCounter >= c.m_downsampleInterval
         THEN [store |-> TRUE, b |-> [c EXCEPT !.m_downsampleCounter = 0]]
         ELSE [store |-> FALSE, b |-> c]

\* addSnapshot moving the cursor on without wrapping it.
addSnapshotUnwrapped(b, step, snapshot) ==
    LET kept == shouldStore(b)
        c == kept.b
        wasAtCapacity == c.m_size = c.m_maxCapacity
    IN IF ~kept.store THEN c
       ELSE [c EXCEPT !.m_buffer[c.m_head] = SnapshotEntry(step, snapshot),
                      !.m_head = c.m_head + 1,
                      !.m_size = IF c.m_size < c.m_maxCapacity THEN @ + 1 ELSE @,
                      !.notified = @ \o <<snapshotAdded(step)>>
                                     \o (IF wasAtCapacity THEN <<bufferWrapped>> ELSE <<>>)]

\* addSnapshot taking the buffer for full after it has counted the new entry.
addSnapshotWrappedOnFill(b, step, snapshot) ==
    LET kept == shouldStore(b)
        c == kept.b
        newSize == IF c.m_size < c.m_maxCapacity THEN c.m_size + 1 ELSE c.m_size
        wasAtCapacity == newSize = c.m_maxCapacity
    IN IF ~kept.store THEN c
       ELSE [c EXCEPT !.m_buffer[c.m_head] = SnapshotEntry(step, snapshot),
                      !.m_head = cmod(c.m_head + 1, c.m_maxCapacity),
                      !.m_size = newSize,
                      !.notified = @ \o <<snapshotAdded(step)>>
                                     \o (IF wasAtCapacity THEN <<bufferWrapped>> ELSE <<>>)]

addSnapshot(b, step, snapshot) ==
    LET kept == shouldStore(b)
        c == kept.b
        wasAtCapacity == c.m_size = c.m_maxCapacity
    IN IF ~kept.store THEN c
       ELSE [c EXCEPT !.m_buffer[c.m_head] = SnapshotEntry(step, snapshot),
                      !.m_head = cmod(c.m_head + 1, c.m_maxCapacity),
                      !.m_size = IF c.m_size < c.m_maxCapacity THEN @ + 1 ELSE @,
                      !.notified = @ \o <<snapshotAdded(step)>>
                                     \o (IF wasAtCapacity THEN <<bufferWrapped>> ELSE <<>>)]

addMetrics(b, step, metrics) ==
    addSnapshot(b, step,
                JObject((Key("step") :> JDouble(step)) @@ (Key("metrics") :> metrics)))

clear(b) ==
    [b EXCEPT !.m_head = 0,
              !.m_size = 0,
              !.m_downsampleCounter = 0,
              !.m_buffer = [i \in DOMAIN b.m_buffer |-> DefaultEntry],
              !.notified = @ \o <<bufferCleared>>]

\* The slot of m_buffer that holds the index-th oldest retained entry.
actualIdx(b, index) == cmod(b.m_head - b.m_size + index + b.m_maxCapacity, b.m_maxCapacity)

size(b) == b.m_size
isFull(b) == b.m_size = b.m_maxCapacity

getLatestSnapshot(b) ==
    IF b.m_size = 0 THEN EmptyObject
    ELSE b.m_buffer[cmod(b.m_head - 1 + b.m_maxCapacity, b.m_maxCapacity)].data

getSnapshotAt(b, index) ==
    IF index < 0 \/ index >= b.m_size THEN EmptyObject
    ELSE b.m_buffer[actualIdx(b, index)].data

\* getAllSnapshots reading the slots from the first one on.
getAllSnapshotsBySlot(b) == [i \in 1..b.m_size |-> b.m_buffer[i - 1].data]

getAllSnapshots(b) == [i \in 1..b.m_size |-> b.m_buffer[actualIdx(b, i - 1)].data]

\* The loop of getTimeSeriesData leaving out the entries that lack the path.
RECURSIVE seriesFromLeavingOut(_, _, _, _, _)
seriesFromLeavingOut(b, i, metricPath, startStep, endStep) ==
    IF i >= b.m_size THEN <<>>
    ELSE LET entry == b.m_buffer[actualIdx(b, i)]
             rest == seriesFromLeavingOut(b, i + 1, metricPath, startStep, endStep)
         IN IF entry.step < startStep \/ entry.step > endStep THEN rest
            ELSE IF ~descend(entry.data, split(metricPath)).found THEN rest
            ELSE <<DataPoint(entry.step, extractValue(entry.data, metricPath))>> \o rest

\* The loop of getTimeSeriesData from the i-th oldest entry on.
RECURSIVE seriesFrom(_, _, _, _, _)
seriesFrom(b, i, metricPath, startStep, endStep) ==
    IF i >= b.m_size THEN <<>>
    ELSE LET entry == b.m_buffer[actualIdx(b, i)]
             rest == seriesFrom(b, i + 1, metricPath, startStep, endStep)
         IN IF entry.step < startStep \/ entry.step > endStep THEN rest
            ELSE <<DataPoint(entry.step, extractValue(entry.data, metricPath))>> \o rest

getTimeSeriesData(b, metricPath, startStep, endStep) ==
    seriesFrom(b, 0, metricPath, startStep, endStep)

getStepRange(b) ==
    IF b.m_size = 0 THEN [minStep |-> -1, maxStep |-> -1]
    ELSE LET steps == {b.m_buffer[actualIdx(b, i)].step : i \in 0..(b.m_size - 1)} IN
         [minStep |-> CHOOSE s \in steps : \A t \in steps : s <= t,
          maxStep |-> CHOOSE s \in steps : \A t \in steps : s >= t]

\* What the writers store: the metrics of a step, and a snapshot holding them.
Metrics(step) == JObject(Key("population") :> JDouble(step + 1))
Snapshot(step) == JObject(Key("metrics") :> Metrics(step))
\* The same, and snapshots whose population is a text or whose metrics are a
\* number.
Payloads(step) ==
    {Snapshot(step),
     JObject(Key("metrics") :> JObject(Key("population") :> JString(<<"1", "2">>))),
     JObject(Key("metrics") :> JObject(Key("population") :> JString(<<"1", "x">>))),
     JObject((Key("step") :> JDouble(step)) @@ (Key("metrics") :> JDouble(7)))}
MetricPath == <<"metrics", Dot, "population">>
Paths == {<<>>, <<"metrics">>, <<"step">>, MetricPath}

BufCur ==
    [m_buffer |-> m_buffer,
     m_head |-> m_head,
     m_size |-> m_size,
     m_maxCapacity |-> m_maxCapacity,
     m_downsampleInterval |-> m_downsampleInterval,
     m_downsampleCounter |-> m_downsampleCounter,
     notified |-> <<>>]

BufCommit(b) ==
    /\ m_buffer' = b.m_buffer
    /\ m_head' = b.m_head
    /\ m_size' = b.m_size
    /\ m_maxCapacity' = b.m_maxCapacity
    /\ m_downsampleInterval' = b.m_downsampleInterval
    /\ m_downsampleCounter' = b.m_downsampleCounter
    /\ notified' = b.notified

\* The latest call: the operation, its argument and what it returned (for
\* setMaxCapacity, the capacity before the call).
Call(op, arg, value) == [op |-> op, arg |-> arg, value |-> value]
\* written: the write attempts made since the buffer was last empty with its
\* counter at zero, as long as nothing but writes and reads came after
\* (fresh), and the number of write attempts made since construction.
\* cap, list: the abstract bounded list of the entries written (cap 0: not
\* followed); resized, since: the capacity was changed while entries were
\* held, and the writes made since.
Unwritten ==
    [fresh |-> TRUE, writes |-> <<>>, count |-> 0,
     cap |-> 0, list |-> <<>>, resized |-> FALSE, since |-> 0]
Attempt(w, step, data) ==
    [w EXCEPT !.writes = IF w.fresh THEN @ \o <<SnapshotEntry(step, data)>> ELSE @,
              !.count = @ + 1]

Built(maxCapacity) ==
    /\ LET b == SnapshotBuffer(maxCapacity) IN
       /\ m_buffer = b.m_buffer
       /\ m_head = b.m_head
       /\ m_size = b.m_size
       /\ m_maxCapacity = b.m_maxCapacity
       /\ m_downsampleInterval = b.m_downsampleInterval
       /\ m_downsampleCounter = b.m_downsampleCounter
       /\ notified = b.notified
    /\ called = Call("SnapshotBuffer", maxCapacity, 0)

Constructed(maxCapacity) ==
    /\ Built(maxCapacity)
    /\ written = Unwritten

\* No thread is calling the buffer, which its writers left in state s.
Unshared(s) ==
    /\ m_mutex = {}
    /\ threads = [t \in 0..MaxReaders |-> <<>>]
    /\ stable = s
    /\ InterfaceConstructed

AddSnapshot ==
    /\ written.count < MaxWrites
    /\ LET step == written.count IN
       /\ BufCommit(addSnapshot(BufCur, step, Snapshot(step)))
       /\ written' = Attempt(written, step, Snapshot(step))
       /\ called' = Call("addSnapshot", step, 0)
    /\ UNCHANGED <<clientVars, threadVars, interfaceVars>>

AddMetrics ==
    /\ written.count < MaxWrites
    /\ LET step == written.count
           b == addMetrics(BufCur, step, Metrics(step))
       IN /\ BufCommit(b)
          /\ written' = Attempt(written, step,
                                JObject((Key("step") :> JDouble(step))
                                        @@ (Key("metrics") :> Metrics(step))))
          /\ called' = Call("addMetrics", step, 0)
    /\ UNCHANGED <<clientVars, threadVars, interfaceVars>>

\* A write of any payload, of which there are enough to wrap every ring; the
\* attempts are counted and not kept.
AddPayload ==
    /\ written.count <= MaxCap
    /\ \E data \in Payloads(written.count) :
          BufCommit(addSnapshot(BufCur, written.count, data))
    /\ written' = [fresh |-> FALSE, writes |-> <<>>, count |-> written.count + 1]
    /\ called' = Call("addSnapshot", written.count, 0)
    /\ UNCHANGED <<clientVars, threadVars, interfaceVars>>

SetMaxCapacity ==
    /\ \E capacity \in 0..MaxCap :
          /\ BufCommit(setMaxCapacity(BufCur, capacity))
          /\ called' = Call("setMaxCapacity", capacity, m_maxCapacity)
    /\ written' = IF written.fresh /\ written.writes = <<>> THEN written
                  ELSE [written EXCEPT !.fresh = FALSE, !.writes = <<>>]
    /\ UNCHANGED <<clientVars, threadVars, interfaceVars>>

SetDownsampleInterval ==
    /\ \E interval \in 0..MaxInterval :
          /\ BufCommit(setDownsampleInterval(BufCur, interval))
          /\ called' = Call("setDownsampleInterval", interval, 0)
    /\ written' = [written EXCEPT !.fresh = (m_size = 0), !.writes = <<>>]
    /\ UNCHANGED <<clientVars, threadVars, interfaceVars>>

Clear ==
    /\ BufCommit(clear(BufCur))
    /\ written' = [written EXCEPT !.fresh = TRUE, !.writes = <<>>]
    /\ called' = Call("clear", 0, 0)
    /\ UNCHANGED <<clientVars, threadVars, interfaceVars>>

Returns(op, arg, value) ==
    /\ called' = Call(op, arg, value)
    /\ BufCommit(BufCur)
    /\ UNCHANGED <<written, clientVars, threadVars, interfaceVars>>

GetSize == Returns("size", 0, size(BufCur))
GetLatestSnapshot == Returns("getLatestSnapshot", 0, getLatestSnapshot(BufCur))
GetSnapshotAt ==
    \E index \in (0 - 1)..m_maxCapacity :
        Returns("getSnapshotAt", index, getSnapshotAt(BufCur, index))
GetAllSnapshots == Returns("getAllSnapshots", 0, getAllSnapshots(BufCur))
GetTimeSeriesData ==
    \E metricPath \in Paths, startStep \in 0..MaxCap, endStep \in 0..MaxCap :
        Returns("getTimeSeriesData",
                [metricPath |-> metricPath, startStep |-> startStep, endStep |-> endStep],
                getTimeSeriesData(BufCur, metricPath, startStep, endStep))
GetStepRange == Returns("getStepRange", 0, getStepRange(BufCur))

-----------------------------------------------------------------------------
(* The steps of the client, continued *)


\* burst follows the step commands sent back to back on an initialized session
\* that was Running with nothing in flight, and then their answers by a child
\* that has advanced its tick: sent and answered count them, stepped counts
\* the stepped signals of the answers, from is the tick before the first
\* command.  Any other step starts afresh.
NoBurst == [on |-> FALSE, sent |-> 0, answered |-> 0, stepped |-> 0, from |-> 0]
IdleBurst == [NoBurst EXCEPT !.on = TRUE]

burstNext(b, l, f) ==
    IF ~b.on THEN b
    ELSE IF /\ l.h = "sendStep" /\ l.n > 0
            /\ m_initialized
            /\ IF b.sent = 0 THEN m_state = "Running" ELSE m_state = "Stepping"
            /\ b.answered = 0
            /\ inflight.step = b.sent /\ inflight.init = 0
    THEN [b EXCEPT !.sent = @ + 1, !.from = IF b.sent = 0 THEN m_currentTick ELSE @]
    ELSE IF /\ l.h = "handleResponse" /\ l.res = "step"
            /\ Answers(f) /\ f.tick > m_currentTick
            /\ b.sent > b.answered
    THEN [b EXCEPT !.answered = @ + 1, !.stepped = @ + Count(emitted', IsStepped)]
    ELSE IdleBurst

NoteFrame(l, f) ==
    /\ last' = l
    /\ burst' = burstNext(burst, l, f)
    /\ stage' = script(stage, l, f)
    /\ lifecycle' = IF stage' = "off" THEN <<>> ELSE lifecycle \o SelectSeq(emitted', IsLifecycle)
    /\ fed' = IF l.h = "start" /\ l.res = "launched" THEN <<>>
            ELSE IF l.res = "stream" THEN fed \o l.data ELSE fed
    /\ stoppedInCall' = (IF pc = "loop" THEN 0 ELSE stoppedInCall) + Count(emitted', IsStopped)
    /\ UNCHANGED <<bufferVars, threadVars, interfaceVars>>

\* sinceStop: "returned" when the latest step was stop() returning, "again"
\* when it was a stop() returning right after a stop() had returned,
\* "settling" while nothing but notifications of the child that stop() killed
\* has been delivered since, "no" otherwise.
StopReturned ==
    sinceStop' = IF pc = "loop" /\ sinceStop \in {"returned", "again"} THEN "again" ELSE "returned"
Note(l) == NoteFrame(l, NoFrame)

ChildNotified ==
    sinceStop' = IF pc = "loop" /\ sinceStop # "no" /\ killed THEN "settling" ELSE "no"
OtherStep == sinceStop' = "no"

InitSession ==
    /\ m_state = "Idle"
    /\ m_currentTick = 0
    /\ m_plannedSteps = 0
    /\ m_initialized = FALSE
    /\ m_initPending = FALSE
    /\ m_pendingConfig = EmptyConfig
    /\ m_lineBuffer = <<>>
    /\ timerActive = FALSE
    /\ processState = "NotRunning"
    /\ killed = FALSE
    /\ inflight = NoneInFlight
    /\ pc = "loop"
    /\ emitted = <<>>
    /\ stoppedInCall = 0
    /\ io = <<>>
    /\ last = Lbl("EngineClient", "")
    /\ sinceStop = "no"
    /\ owed = FALSE
    /\ fed = <<>>
    /\ dispatched = <<>>
    /\ lifecycle = <<>>

\* The session after construction, followed by no script.
Init ==
    /\ InitSession /\ stage = "off" /\ burst = NoBurst
    /\ Constructed(0) /\ Unshared(SnapshotBuffer(0))

\* The same, with the scripts followed from its first step.
InitScripted ==
    /\ InitSession /\ stage = "begin" /\ burst = NoBurst
    /\ Constructed(0) /\ Unshared(SnapshotBuffer(0))

\* The same, with the step commands sent back to back followed.
InitBurst ==
    /\ InitSession /\ stage = "off" /\ burst = IdleBurst
    /\ Constructed(0) /\ Unshared(SnapshotBuffer(0))

-----------------------------------------------------------------------------
(* Calls of the public slots, made from the event loop *)

Start ==
    /\ pc = "loop"
    /\ \E target \in {"ok", "unset", "missing"} :
        LET s == start(Entry, target)
        IN /\ Commit(s)
           /\ Note(Lbl("start", startOutcome(Cur, target)))
    /\ OtherStep
    /\ UNCHANGED <<pc, owed>>

Stop ==
    /\ pc = "loop"
    /\ IF stopIsNoop(Cur)
       THEN /\ Commit(emit(Entry, Log("Engine already stopped")))
            /\ pc' = pc
            /\ Note(Lbl("stop", "noop"))
            /\ StopReturned
       ELSE LET s1 == stopBegin(Entry)
            IN IF s1.processState = "NotRunning"
               THEN /\ Commit(stopNoWait(s1))
                    /\ pc' = "loop"
                    /\ Note(Lbl("stop", "done"))
                    /\ StopReturned
               ELSE /\ Commit(s1)
                    /\ pc' = "stopWait1"
                    /\ Note(Lbl("stop", "waiting"))
                    /\ OtherStep
    /\ owed' = FALSE

SendInit ==
    /\ pc = "loop"
    /\ InFlight(Cur) < MaxInFlight
    /\ \E config \in Configs :
        LET res == sendInitOutcome(Cur, config)
        IN /\ Commit(sendInit(Entry, config))
           /\ Note(Arg("sendInit", res, 0, config, ""))
           /\ owed' = IF res = "retained" THEN TRUE ELSE IF res = "rejected" THEN owed ELSE FALSE
    /\ OtherStep
    /\ UNCHANGED pc

SendStep ==
    /\ pc = "loop"
    /\ InFlight(Cur) < MaxInFlight
    /\ \E steps \in -1..MaxStepArg :
        /\ Commit(sendStep(Entry, steps))
        /\ Note(Arg("sendStep", "", steps, EmptyConfig, ""))
    /\ OtherStep
    /\ owed' = FALSE
    /\ UNCHANGED pc

RequestSnapshot ==
    /\ pc = "loop"
    /\ InFlight(Cur) < MaxInFlight
    /\ Commit(requestSnapshot(Entry))
    /\ Note(Lbl("requestSnapshot", ""))
    /\ OtherStep
    /\ owed' = FALSE
    /\ UNCHANGED pc

SendStop ==
    /\ pc = "loop"
    /\ InFlight(Cur) < MaxInFlight
    /\ Commit(sendStop(Entry))
    /\ Note(Lbl("sendStop", ""))
    /\ OtherStep
    /\ owed' = FALSE
    /\ UNCHANGED pc

-----------------------------------------------------------------------------
(* Notifications of QProcess and QTimer.  The process notifications are      *)
(* delivered from the event loop or from inside a waitForFinished of stop(). *)

\* QProcess::started
ProcStarted ==
    /\ processState = "Starting"
    /\ Commit(onProcessStarted([Entry EXCEPT !.processState = "Running"]))
    /\ Note(Lbl("onProcessStarted", IF owed THEN "owed" ELSE ""))
    /\ ChildNotified
    /\ owed' = FALSE
    /\ UNCHANGED pc

\* The child could not be started: errorOccurred(FailedToStart), no finished().
\* Inside stop() the wait then returns false and stop() runs on without blocking.
\* A child that was sent SIGKILL is reported as crashed, not as failed to start.
ProcFailedToStart ==
    /\ processState = "Starting"
    /\ ~killed
    /\ LET s0 == [Entry EXCEPT !.processState = "NotRunning", !.killed = FALSE,
                               !.inflight = NoneInFlight]
           s1 == onProcessError(s0, "FailedToStart")
       IN CASE pc = "loop" -> Commit(s1) /\ ChildNotified
            [] pc = "stopWait1" -> Commit(stopNoWait(s1)) /\ StopReturned
            [] pc = "stopWait2" -> Commit(stopAfterWait2(s1, FALSE)) /\ StopReturned
    /\ Note(Lbl("onProcessError", "FailedToStart"))
    /\ pc' = "loop"
    /\ owed' = FALSE

\* readyReadStandardOutput with one complete line holding the JSON object f,
\* read when no incomplete line is buffered.
Deliver(f) ==
    /\ processState = "Running"
    /\ m_lineBuffer = <<>>
    /\ Commit(handleResponse(
            [Entry EXCEPT !.inflight = IF Answers(f) THEN [@ EXCEPT ![f.op] = @ - 1] ELSE @],
            f))
    /\ NoteFrame(Arg("handleResponse", IF toBool(f.success, FALSE) THEN f.op ELSE "failure",
                     0, EmptyConfig, f.error), f)
    /\ OtherStep
    /\ owed' = FALSE
    /\ UNCHANGED pc

\* The child answers a step command after running the steps asked for: its
\* tick is ahead of the one the client has by one step or more.
PeerSteps ==
    /\ inflight.step > 0
    /\ \E d \in 1..MaxStepArg :
        /\ m_currentTick + d <= MaxTick + MaxInFlight
        /\ Deliver(Frame("true", "step", m_currentTick + d, FALSE, Absent))

\* The child answers a command it was sent, with success or failure.
PeerAnswers == \E f \in Frames : Answers(f) /\ Deliver(f)

\* The child writes a frame nobody asked for: a ping, an error report, a
\* snapshot, an op this client does not know, a duplicate answer.
PeerVolunteers == \E f \in Frames : ~Answers(f) /\ Deliver(f)

\* readyReadStandardOutput with bytes drawn from reads.  The label keeps the
\* bytes and whether they hold a line end.
Read(reads) ==
    /\ processState = "Running"
    /\ \E data \in reads :
        /\ Commit(onReadyReadStdOut(Entry, data))
        /\ Note([Lbl("onReadyReadStdOut", IF indexOf(data, LF) = 0 THEN "partial" ELSE "lines")
                   EXCEPT !.data = data])
    /\ OtherStep
    /\ owed' = FALSE
    /\ UNCHANGED pc

\* Reads of any bytes: parts of lines, several lines.
ReadStdOut == Read(PlainReads)

\* Reads that end in the middle of a line.
ReadPartial == Read(PartialReads)

\* The same, keeping in fed the bytes read since the launch.
ReadStream ==
    /\ processState = "Running"
    /\ \E data \in Reads :
        /\ Len(fed) + Len(data) <= MaxStream
        /\ Commit(onReadyReadStdOut(Entry, data))
        /\ Note([Lbl("onReadyReadStdOut", "stream") EXCEPT !.data = data])
    /\ OtherStep
    /\ owed' = FALSE
    /\ UNCHANGED pc

\* The child has died.  A child killed by a signal is reported as
\* errorOccurred(Crashed) followed by finished(code, CrashExit); a child that
\* exits by itself as finished(code, NormalExit).  SIGKILL cannot be handled,
\* so a killed child never exits normally.
ProcessExits ==
    /\ processState = "Running"
    /\ \E crashed \in BOOLEAN, exitCode \in {0, 1} :
        /\ killed => crashed
        /\ crashed => exitCode = 1
        /\ LET s0 == [Entry EXCEPT !.processState = "NotRunning", !.killed = FALSE,
                                   !.inflight = NoneInFlight]
               s1 == IF crashed
                     THEN onProcessFinished(onProcessError(s0, "Crashed"), exitCode, TRUE)
                     ELSE onProcessFinished(s0, exitCode, FALSE)
           IN /\ CASE pc = "loop" -> Commit(s1) /\ ChildNotified
                    [] pc = "stopWait1" -> Commit(stopClean(s1)) /\ StopReturned
                    [] pc = "stopWait2" -> Commit(stopAfterWait2(s1, TRUE)) /\ StopReturned
              /\ Note(Lbl("onProcessFinished",
                          IF crashed THEN "crash" ELSE IF exitCode = 0 THEN "exit0" ELSE "exit1"))
    /\ pc' = "loop"
    /\ owed' = FALSE

\* errorOccurred(WriteError | ReadError): the child keeps running.
ProcIOError ==
    /\ processState = "Running"
    /\ Commit(onProcessError(Entry, "WriteError"))
    /\ Note(Lbl("onProcessError", "WriteError"))
    /\ OtherStep
    /\ owed' = FALSE
    /\ UNCHANGED pc

\* The startup timer fires; timers fire from the event loop only.
StartupTimeout ==
    /\ pc = "loop"
    /\ timerActive
    /\ Commit(onStartupTimeout(Entry))
    /\ Note(Lbl("onStartupTimeout", IF m_state = "Starting" THEN "fired" ELSE "ignored"))
    /\ OtherStep
    /\ owed' = FALSE
    /\ UNCHANGED pc

\* A waitForFinished of stop() times out.
StopWaitTimeout ==
    /\ pc # "loop"
    /\ IF pc = "stopWait1"
       THEN /\ Commit(stopEscalate(Entry))
            /\ pc' = "stopWait2"
            /\ Note(Lbl("stop", "waiting"))
            /\ OtherStep
       ELSE /\ Commit(stopAfterWait2(Entry, FALSE))
            /\ pc' = "loop"
            /\ Note(Lbl("stop", "done"))
            /\ StopReturned
    /\ UNCHANGED owed

Next ==
    \/ Start
    \/ Stop
    \/ SendInit
    \/ SendStep
    \/ RequestSnapshot
    \/ SendStop
    \/ ProcStarted
    \/ ProcFailedToStart
    \/ PeerAnswers
    \/ PeerVolunteers
    \/ ProcessExits
    \/ ProcIOError
    \/ StartupTimeout
    \/ StopWaitTimeout

Spec == Init /\ [][Next]_vars

\* The same session with a child that only ever answers the init and step
\* commands it was sent (with success or failure, and any tick).
NextAnswering ==
    \/ Start
    \/ Stop
    \/ SendInit
    \/ SendStep
    \/ RequestSnapshot
    \/ SendStop
    \/ ProcStarted
    \/ ProcFailedToStart
    \/ PeerAnswers
    \/ ProcessExits
    \/ ProcIOError
    \/ StartupTimeout
    \/ StopWaitTimeout

SpecAnswering == Init /\ [][NextAnswering]_vars

\* The session reading its child's stdout as the bytes come: launches, init
\* and its answer, reads of any bytes, the child's exit.
NextDecoding ==
    \/ Start
    \/ SendInit
    \/ ProcStarted
    \/ PeerAnswers
    \/ ReadStdOut
    \/ ProcessExits

SpecDecoding == Init /\ [][NextDecoding]_vars

\* The session relaunched: launches, init and step commands with their
\* answers, reads that leave a part of a line in the buffer, the child's exit.
NextRestarting ==
    \/ Start
    \/ SendInit
    \/ SendStep
    \/ ProcStarted
    \/ PeerAnswers
    \/ ReadPartial
    \/ ProcessExits

SpecRestarting == Init /\ [][NextRestarting]_vars

\* A launched child and the successive reads of what it writes.
NextStreaming ==
    \/ Start
    \/ ProcStarted
    \/ ReadStream
    \/ ProcessExits

SpecStreaming == Init /\ [][NextStreaming]_vars

\* The session with its scripted runs followed.
SpecScripted == InitScripted /\ [][Next]_vars

\* The session sent its step commands back to back: launch, init and its
\* answer, steps, their answers by a child whose tick advances (or any other
\* answer), the child's exit.
NextBurst ==
    \/ Start
    \/ SendInit
    \/ SendStep
    \/ ProcStarted
    \/ PeerAnswers
    \/ PeerSteps
    \/ ProcessExits

SpecBurst == InitBurst /\ [][NextBurst]_vars

\* The client after construction, next to a buffer constructed with any
\* capacity argument.
InitBuffer ==
    /\ InitSession /\ stage = "off" /\ burst = NoBurst
    /\ \E maxCapacity \in 0..MaxCap : Constructed(maxCapacity)
    /\ Unshared(SnapshotBuffer(0))

NextBuffer ==
    \/ AddSnapshot
    \/ AddMetrics
    \/ SetMaxCapacity
    \/ SetDownsampleInterval
    \/ Clear
    \/ GetSize
    \/ GetLatestSnapshot
    \/ GetSnapshotAt
    \/ GetAllSnapshots

SpecBuffer == InitBuffer /\ [][NextBuffer]_vars

NextSeries ==
    \/ AddPayload
    \/ SetMaxCapacity
    \/ Clear
    \/ GetTimeSeriesData
    \/ GetStepRange

SpecSeries == InitBuffer /\ [][NextSeries]_vars

(***************************************************************************)
(* The buffer next to the list it stands for: a list of at most cap        *)
(* entries that takes a write at its end, dropping its first entry when it *)
(* has grown over cap, keeps its newest entries when cap changes, and is   *)
(* emptied by clear.  The buffer is written with downsample interval 1.    *)
(***************************************************************************)
fifoWrite(w, entry) ==
    LET l == Append(w.list, entry)
    IN [w EXCEPT !.list = IF Len(l) > w.cap THEN Tail(l) ELSE l]

fifoResize(w, n) ==
    LET kept == min(Len(w.list), n)
    IN [w EXCEPT !.cap = n, !.list = SubSeq(w.list, Len(w.list) - kept + 1, Len(w.list))]

fifoClear(w) == [w EXCEPT !.list = <<>>]

InitFifo ==
    /\ InitSession /\ stage = "off" /\ burst = NoBurst
    /\ \E maxCapacity \in 0..MaxCap :
          /\ Built(maxCapacity)
          /\ written = [Unwritten EXCEPT !.cap = SnapshotBuffer(maxCapacity).m_maxCapacity]
    /\ Unshared(SnapshotBuffer(0))

FifoWrite ==
    /\ written.count < MaxWrites
    /\ LET step == written.count IN
       /\ BufCommit(addSnapshot(BufCur, step, Snapshot(step)))
       /\ written' = [fifoWrite(Attempt(written, step, Snapshot(step)),
                                SnapshotEntry(step, Snapshot(step)))
                         EXCEPT !.since = @ + 1]
       /\ called' = Call("addSnapshot", step, 0)
    /\ UNCHANGED <<clientVars, threadVars, interfaceVars>>

FifoResize ==
    /\ \E capacity \in 1..(MaxCap + 1) :
          /\ BufCommit(setMaxCapacity(BufCur, capacity))
          /\ called' = Call("setMaxCapacity", capacity, m_maxCapacity)
          /\ written' = [fifoResize(written, capacity)
                            EXCEPT !.fresh = FALSE, !.writes = <<>>,
                                   !.resized = @ \/ (capacity # m_maxCapacity /\ m_size > 0),
                                   !.since = IF capacity # m_maxCapacity THEN 0 ELSE @]
    /\ UNCHANGED <<clientVars, threadVars, interfaceVars>>

FifoClear ==
    /\ BufCommit(clear(BufCur))
    /\ written' = [fifoClear(written) EXCEPT !.fresh = TRUE, !.writes = <<>>,
                                             !.resized = FALSE, !.since = 0]
    /\ called' = Call("clear", 0, 0)
    /\ UNCHANGED <<clientVars, threadVars, interfaceVars>>

NextFifo ==
    \/ FifoWrite
    \/ FifoResize
    \/ FifoClear
    \/ GetAllSnapshots

SpecFifo == InitFifo /\ [][NextFifo]_vars

-----------------------------------------------------------------------------
(***************************************************************************)
(* SnapshotBuffer called from several threads.  Every public operation     *)
(* takes m_mutex with a QMutexLocker; here an operation is the sequence of *)
(* its statements, a thread runs the statements of its innermost call one  *)
(* at a time, and a slot connected directly to a signal runs inside the    *)
(* emit, on the emitting thread, where it may call the buffer again.       *)
(***************************************************************************)

\* m_mutex is the set of the threads that hold it: none, or one.
Free == {}
Writer == 0
Readers == 1..MaxReaders
Threads == {Writer} \cup Readers

WriteOps == {"addSnapshot", "setMaxCapacity", "setDownsampleInterval", "clear"}
ReadOps == {"size", "getLatestSnapshot", "getSnapshotAt", "getAllSnapshots",
            "getTimeSeriesData", "getStepRange"}

\* addSnapshot letting go of the mutex after its emits.
addSnapshotBodyEmittingLocked ==
    <<"lock", "shouldStore", "store", "advance", "count",
      "emitAdded", "emitWrapped", "unlock", "return">>

\* The statements of addSnapshot 75-103.
addSnapshotBody ==
    <<"lock", "shouldStore", "store", "advance", "count", "unlock",
      "emitAdded", "emitWrapped", "return">>
\* The statements of clear 115-131.
clearBody ==
    <<"lock", "zeroHead", "zeroSize", "zeroCounter", "wipe", "unlock",
      "emitCleared", "return">>
\* A walk of the retained entries that does not take the mutex.
walkBodyUnlocked == <<"walk", "return">>

\* The statements of a read that walks the retained entries: getAllSnapshots
\* 177-190, getTimeSeriesData 192-217.
walkBody == <<"lock", "walk", "return">>

Body(op) ==
    CASE op = "addSnapshot" -> addSnapshotBody
      [] op = "clear" -> clearBody
      [] op = "setMaxCapacity" ->
            <<"lock", "check", "copy", "moveBuffer", "setCapacity", "setHead", "setSize",
              "return">>
      [] op = "setDownsampleInterval" -> <<"lock", "setInterval", "resetCounter", "return">>
      [] op = "size" -> <<"lock", "readSize", "return">>
      [] op = "getLatestSnapshot" -> <<"lock", "checkEmpty", "readLatest", "return">>
      [] op = "getSnapshotAt" -> <<"lock", "checkIndex", "readAt", "return">>
      [] op = "getStepRange" -> <<"lock", "checkEmpty", "walk", "return">>
      [] OTHER -> walkBody

\* What the read op returns of the buffer b when nothing runs beside it.
Result(op, arg, b) ==
    CASE op = "size" -> size(b)
      [] op = "getLatestSnapshot" -> getLatestSnapshot(b)
      [] op = "getSnapshotAt" -> getSnapshotAt(b, arg)
      [] op = "getAllSnapshots" -> getAllSnapshots(b)
      [] op = "getTimeSeriesData" ->
            getTimeSeriesData(b, arg.metricPath, arg.startStep, arg.endStep)
      [] op = "getStepRange" -> getStepRange(b)
      [] OTHER -> 0

\* A call in progress: the operation and its argument, the statement it is at,
\* whether its locker holds the mutex, its locals (flag: wasAtCapacity; i: the
\* loop index or entriesToCopy; acc: the entries read or newBuffer) and the
\* value it will return.
Frame0(op, arg) ==
    [op |-> op, arg |-> arg, pc |-> 1, locked |-> FALSE, flag |-> FALSE, i |-> 0,
     acc |-> <<>>, value |-> 0]
Top(t) == threads[t][Len(threads[t])]
At(t) == Body(Top(t).op)[Top(t).pc]

\* The series query the threads make.
SeriesQuery == [metricPath |-> MetricPath, startStep |-> 1, endStep |-> MaxWrites]

\* What a slot outside the vector holds is anyone's guess.
Garbage == SnapshotEntry(0 - 2, EmptyObject)
slot(b, idx) == IF idx \in DOMAIN b.m_buffer THEN b.m_buffer[idx] ELSE Garbage

\* The value a read returns from the entries it has walked.
walked(f) ==
    CASE f.op = "getAllSnapshots" -> [k \in 1..Len(f.acc) |-> f.acc[k].data]
      [] f.op = "getTimeSeriesData" ->
            LET InRange(e) == ~(e.step < f.arg.startStep \/ e.step > f.arg.endStep)
                kept == SelectSeq(f.acc, InRange)
            IN [k \in 1..Len(kept) |->
                   DataPoint(kept[k].step, extractValue(kept[k].data, f.arg.metricPath))]
      [] OTHER ->
            LET steps == {f.acc[k].step : k \in 1..Len(f.acc)} IN
            IF steps = {} THEN [minStep |-> 2147483647, maxStep |-> 0 - 2147483647 - 1]
            ELSE [minStep |-> CHOOSE s \in steps : \A u \in steps : s <= u,
                  maxStep |-> CHOOSE s \in steps : \A u \in steps : s >= u]

\* One statement of the call f on the buffer b, the mutex and the signals
\* apart: the buffer and the call after it.
exec(b, f, stmt) ==
    LET next == [f EXCEPT !.pc = @ + 1]
        leave == [f EXCEPT !.pc = Len(Body(f.op))]
        go(b2, f2) == [b |-> b2, f |-> f2]
    IN CASE stmt = "shouldStore" ->
              LET kept == shouldStore(b) IN go(kept.b, IF kept.store THEN next ELSE leave)
         [] stmt = "store" ->
              go([b EXCEPT !.m_buffer =
                     IF b.m_head \in DOMAIN @
                     THEN [@ EXCEPT ![b.m_head] = SnapshotEntry(f.arg, Snapshot(f.arg))]
                     ELSE @], next)
         [] stmt = "advance" -> go([b EXCEPT !.m_head = cmod(@ + 1, b.m_maxCapacity)], next)
         [] stmt = "count" ->
              go([b EXCEPT !.m_size = IF @ < b.m_maxCapacity THEN @ + 1 ELSE @],
                 [next EXCEPT !.flag = (b.m_size = b.m_maxCapacity)])
         [] stmt = "zeroHead" -> go([b EXCEPT !.m_head = 0], next)
         [] stmt = "zeroSize" -> go([b EXCEPT !.m_size = 0], next)
         [] stmt = "zeroCounter" -> go([b EXCEPT !.m_downsampleCounter = 0], next)
         [] stmt = "wipe" ->
              go([b EXCEPT !.m_buffer = [k \in DOMAIN @ |-> DefaultEntry]], next)
         [] stmt = "check" ->
              go(b, IF f.arg < 1 \/ f.arg = b.m_maxCapacity THEN leave ELSE next)
         [] stmt = "copy" ->
              LET entriesToCopy == min(b.m_size, f.arg)
                  startIdx == IF b.m_size > f.arg THEN b.m_size - f.arg ELSE 0
                  oldIdx(k) == cmod(b.m_head - b.m_size + startIdx + k + b.m_maxCapacity,
                                    b.m_maxCapacity)
              IN go(b, [next EXCEPT !.i = entriesToCopy,
                                    !.acc = [k \in 0..(f.arg - 1) |->
                                                IF k < entriesToCopy THEN slot(b, oldIdx(k))
                                                ELSE DefaultEntry]])
         [] stmt = "moveBuffer" -> go([b EXCEPT !.m_buffer = f.acc], [next EXCEPT !.acc = <<>>])
         [] stmt = "setCapacity" -> go([b EXCEPT !.m_maxCapacity = f.arg], next)
         [] stmt = "setHead" -> go([b EXCEPT !.m_head = cmod(f.i, f.arg)], next)
         [] stmt = "setSize" -> go([b EXCEPT !.m_size = f.i], [next EXCEPT !.i = 0])
         [] stmt = "setInterval" ->
              go([b EXCEPT !.m_downsampleInterval = IF f.arg < 1 THEN 1 ELSE f.arg], next)
         [] stmt = "resetCounter" -> go([b EXCEPT !.m_downsampleCounter = 0], next)
         [] stmt = "readSize" -> go(b, [next EXCEPT !.value = b.m_size])
         [] stmt = "checkEmpty" ->
              go(b, IF b.m_size # 0 THEN next
                    ELSE [leave EXCEPT !.value = IF f.op = "getStepRange"
                                                 THEN [minStep |-> 0 - 1, maxStep |-> 0 - 1]
                                                 ELSE EmptyObject])
         [] stmt = "checkIndex" ->
              go(b, IF f.arg < 0 \/ f.arg >= b.m_size
                    THEN [leave EXCEPT !.value = EmptyObject] ELSE next)
         [] stmt = "readLatest" ->
              go(b, [next EXCEPT !.value =
                        slot(b, cmod(b.m_head - 1 + b.m_maxCapacity, b.m_maxCapacity)).data])
         [] stmt = "readAt" -> go(b, [next EXCEPT !.value = slot(b, actualIdx(b, f.arg)).data])
         [] stmt = "walk" ->
              IF f.i < b.m_size
              THEN go(b, [f EXCEPT !.i = @ + 1, !.acc = @ \o <<slot(b, actualIdx(b, f.i))>>])
              ELSE LET done == [next EXCEPT !.i = 0, !.acc = <<>>] IN
                   go(b, [done EXCEPT !.value = walked(f)])
         [] OTHER -> go(b, next)

\* The signal an emit statement of the call f sends, if any.
emits(f, stmt) ==
    CASE stmt = "emitAdded" -> <<snapshotAdded(f.arg)>>
      [] stmt = "emitWrapped" -> IF f.flag THEN <<bufferWrapped>> ELSE <<>>
      [] stmt = "emitCleared" -> <<bufferCleared>>
      [] OTHER -> <<>>

Stable(b) == [b EXCEPT !.notified = <<>>]

\* Thread t calls the operation op.  QMutex is not recursive.  An operation
\* that starts by taking the mutex starts when the mutex is free, and takes
\* it; while another thread holds the mutex the call waits, which is this
\* step not being taken; called by the thread that holds the mutex, it stays
\* at its lock statement for ever.
Enter(t, op, arg) ==
    /\ Body(op)[1] = "lock" => (m_mutex = Free \/ t \in m_mutex)
    /\ LET takes == Body(op)[1] = "lock" /\ m_mutex = Free IN
       /\ threads' = [threads EXCEPT ![t] = @ \o
                         <<IF takes THEN [Frame0(op, arg) EXCEPT !.pc = 2, !.locked = TRUE]
                           ELSE Frame0(op, arg)>>]
       /\ m_mutex' = IF takes THEN {t} ELSE m_mutex
    /\ written' = IF op = "addSnapshot" THEN [written EXCEPT !.fresh = FALSE, !.writes = <<>>,
                                                            !.count = @ + 1]
                  ELSE written
    /\ notified' = <<>>
    /\ UNCHANGED <<m_buffer, m_head, m_size, m_maxCapacity, m_downsampleInterval,
                   m_downsampleCounter, called, stable, clientVars, interfaceVars>>

\* Thread t calls one of ops, with any argument.
Calls(t, ops) ==
    \/ /\ "addSnapshot" \in ops /\ written.count <= MaxCap
       /\ Enter(t, "addSnapshot", written.count)
    \/ /\ "setMaxCapacity" \in ops
       /\ \E capacity \in 0..MaxCap : Enter(t, "setMaxCapacity", capacity)
    \/ /\ "setDownsampleInterval" \in ops
       /\ \E interval \in 1..MaxInterval : Enter(t, "setDownsampleInterval", interval)
    \/ /\ "getSnapshotAt" \in ops
       /\ \E index \in 0..(MaxCap - 1) : Enter(t, "getSnapshotAt", index)
    \/ /\ "getTimeSeriesData" \in ops
       /\ Enter(t, "getTimeSeriesData", SeriesQuery)
    \/ \E op \in ops \cap {"clear", "size", "getLatestSnapshot", "getAllSnapshots",
                           "getStepRange"} :
          Enter(t, op, 0)

\* Thread t runs the statement its innermost call is at; a lock statement
\* waits while the mutex is held, by whichever thread.
Step(t) ==
    /\ threads[t] # <<>>
    /\ LET f == Top(t)
           stmt == At(t)
           d == Len(threads[t])
       IN /\ stmt \notin {"return"}
          /\ stmt = "lock" => m_mutex = Free
          /\ LET r == exec(BufCur, f, stmt)
                 g == [r.f EXCEPT !.locked = IF stmt = "lock" THEN TRUE
                                             ELSE IF stmt = "unlock" THEN FALSE ELSE @]
                 th == [threads EXCEPT ![t][d] = g]
                 commits == stmt = "unlock" /\ f.locked /\ f.op \in WriteOps
             IN /\ BufCommit([r.b EXCEPT !.notified = emits(f, stmt)])
                /\ m_mutex' = IF stmt = "lock" THEN {t}
                              ELSE IF stmt = "unlock" /\ f.locked THEN Free ELSE m_mutex
                /\ stable' = IF commits THEN Stable(r.b) ELSE stable
                /\ threads' = th
    /\ UNCHANGED <<written, called, clientVars, interfaceVars>>

\* The innermost call of thread t returns: its locker lets go of the mutex if
\* it still holds it.
Return(t) ==
    /\ threads[t] # <<>>
    /\ At(t) = "return"
    /\ LET f == Top(t)
           th == [threads EXCEPT ![t] = SubSeq(@, 1, Len(@) - 1)]
           commits == f.locked /\ f.op \in WriteOps
       IN /\ m_mutex' = IF f.locked THEN Free ELSE m_mutex
          /\ stable' = IF commits THEN Stable(BufCur) ELSE stable
          /\ threads' = th
    /\ BufCommit(BufCur)
    /\ UNCHANGED <<written, called, clientVars, interfaceVars>>

\* A slot connected directly to the signal being emitted calls the buffer.
Emitting(t) == threads[t] # <<>> /\ At(t) \in {"emitAdded", "emitWrapped", "emitCleared"}
HandlerCalls(t) ==
    /\ Emitting(t)
    /\ emits(Top(t), At(t)) # <<>>
    /\ Len(threads[t]) < MaxDepth
    /\ Calls(t, WriteOps \cup ReadOps)

\* One thread, whose slots call the buffer from inside the emits.
NextReentrant ==
    \/ threads[Writer] = <<>> /\ Calls(Writer, WriteOps \cup ReadOps)
    \/ Step(Writer)
    \/ Return(Writer)
    \/ HandlerCalls(Writer)

\* One writer and the readers, each making one call after the other.
WriterCalls == threads[Writer] = <<>> /\ Calls(Writer, WriteOps)
ReaderCalls == \E t \in Readers : threads[t] = <<>> /\ Calls(t, ReadOps)
NextConcurrent ==
    \/ WriterCalls
    \/ ReaderCalls
    \/ \E t \in Threads : Step(t)
    \/ \E t \in Threads : Return(t)

InitThreads ==
    /\ InitSession /\ stage = "off" /\ burst = NoBurst
    /\ \E maxCapacity \in 1..MaxCap :
          Constructed(maxCapacity) /\ Unshared(SnapshotBuffer(maxCapacity))

SpecReentrant == InitThreads /\ [][NextReentrant]_vars
SpecConcurrent == InitThreads /\ [][NextConcurrent]_vars

InitInterface ==
    /\ InitSession /\ stage = "off" /\ burst = NoBurst
    /\ Constructed(0) /\ Unshared(SnapshotBuffer(0))

NextInterface ==
    \/ ConnectToEngine
    \/ Disconnect
    \/ SetAutoReconnect
    \/ Command
    \/ SendPing
    \/ SocketConnected
    \/ SocketDisconnected
    \/ SocketError
    \/ TextMessageReceived
    \/ PingTimeout
    \/ ReconnectTimeout

SpecInterface == InitInterface /\ [][NextInterface]_vars

(***************************************************************************)
(* The peer that goes away and never comes back.  The socket reports the   *)
(* end of a connection, or of an attempt to connect, by its error signal,  *)
(* by its disconnected signal, or by the one and then the other; the slots *)
(* run one after the other within the same socket event.                   *)
(***************************************************************************)
Reports == {"error", "disconnected", "both"}

SocketFailed ==
    /\ m_socket # "UnconnectedState"
    /\ \E report \in Reports, error \in SocketErrors :
          LET e == [IfCur EXCEPT !.m_socket = "UnconnectedState"]
              a == IF report = "disconnected" THEN e ELSE onError(e, error)
              b == IF report = "error" THEN a ELSE onDisconnected(a)
          IN IfCommit(b, "onSocketFailed", <<report, error>>)

\* The application connects once, and the peer accepts connections until an
\* open connection has been lost.
FirstConnect == handled.h = "EngineInterface" /\ ConnectToEngine
PeerAccepts == ~outage.lost /\ SocketConnected

NextForced ==
    \/ FirstConnect
    \/ PeerAccepts
    \/ SocketFailed
    \/ ReconnectTimeout
    \/ PingTimeout
    \/ Command

SpecForced == InitInterface /\ [][NextForced]_vars

TypeOK ==
    /\ m_state \in EngineStates
    /\ m_currentTick \in 0..(MaxTick + MaxInFlight)
    /\ m_initialized \in BOOLEAN
    /\ m_initPending \in BOOLEAN
    /\ processState \in {"NotRunning", "Starting", "Running"}
    /\ pc \in {"loop", "stopWait1", "stopWait2"}
    /\ InFlight(Cur) <= MaxInFlight
    /\ m_lineBuffer \in Seq(Bytes \cup {Decoded, Replacement})
    /\ Len(m_lineBuffer) <= Ceiling
    /\ Len(fed) <= MaxStream

-----------------------------------------------------------------------------
(* Properties *)

sessionVars == <<m_state, m_currentTick, m_plannedSteps, m_initialized, m_initPending,
                 m_pendingConfig, m_lineBuffer>>
childVars == <<processState, killed, inflight>>

Errors(evs) == SelectSeq(evs, IsError)
RunningOrStepping == m_state \in {"Running", "Stepping"}

\* The step is a call of the slot, or a delivery of the notification, named h.
Runs(h) == last'.h = h
CallOf(h) == pc = "loop" /\ last'.h = h

\* C1: handling an inbound frame whose success is false or missing, in any
\* lifecycle state, leaves the state Error, initialized and pendingInit false,
\* and emits exactly one Error, which carries the frame's error text (the
\* text "Unknown engine error" when the frame has none).
C1_FailureFrameForcesError ==
    (last.h = "handleResponse" /\ last.res = "failure") =>
        /\ m_state = "Error"
        /\ ~m_initialized
        /\ ~m_initPending
        /\ Errors(emitted) =
             <<Error(IF last.msg = Absent THEN "Unknown engine error" ELSE last.msg)>>

\* A failure frame carrying "boom" has been handled inside stop()'s wait, where
\* the state was Stopping.
C1_Witness ==
    /\ last.h = "handleResponse" /\ last.res = "failure" /\ last.msg = "boom"
    /\ pc = "stopWait1"
    /\ m_state = "Error"
    /\ Errors(emitted) = <<Error("boom")>>

\* C2 as claimed: sendStep(n) made when the session is not initialized, or the
\* state is anything other than Running (Stepping included), or n <= 0, emits
\* an Error, writes nothing, and leaves state, currentTick, initialized and
\* pendingInit unchanged.
C2_StepRejectedUnlessRunning ==
    [][(CallOf("sendStep") /\ (~m_initialized \/ m_state # "Running" \/ last'.n <= 0)) =>
          /\ Len(Errors(emitted')) = 1
          /\ io' = <<>>
          /\ UNCHANGED <<m_state, m_currentTick, m_initialized, m_initPending>>]_vars

\* C2 as amended: sendStep(n) made when the session is not initialized, or the
\* state is neither Running nor Stepping, or n <= 0, emits one Error, writes
\* nothing, and leaves state, currentTick, initialized and pendingInit (and
\* every other field of the session) unchanged.
C2_StepRejectedUnlessRunningOrStepping ==
    [][(CallOf("sendStep") /\ (~m_initialized \/ ~RunningOrStepping \/ last'.n <= 0)) =>
          /\ Len(Errors(emitted')) = 1
          /\ io' = <<>>
          /\ UNCHANGED <<sessionVars, childVars>>]_vars

\* sendStep(0) has been rejected on an initialized, running session.
C2_Witness ==
    /\ last.h = "sendStep" /\ last.n = 0
    /\ m_initialized /\ m_state = "Running"
    /\ emitted = <<Error("Invalid step count")>>
    /\ io = <<>>

\* C3: once stop() has returned and the notifications of the child it signalled
\* have been delivered (the child is gone, and nothing else has happened since),
\* the state is Stopped, or still Idle when the session had never been started.
C3_StopEndsStopped ==
    (pc = "loop" /\ sinceStop # "no" /\ processState = "NotRunning") =>
        m_state \in {"Stopped", "Idle"}

\* C4: a stop() made right after a stop() has returned changes nothing in the
\* session or its child, writes nothing, and emits no Stopped; the two calls
\* together emit at most one Stopped.
C4_SecondStopIsNoop ==
    [][(CallOf("stop") /\ sinceStop \in {"returned", "again"}) =>
          /\ UNCHANGED <<sessionVars, childVars, timerActive, pc>>
          /\ io' = <<>>
          /\ Count(emitted', IsStopped) = 0
          /\ stoppedInCall + stoppedInCall' <= 1]_vars

\* A second stop() has returned right after a first one, in Stopped.
C4_Witness ==
    /\ sinceStop = "again"
    /\ last.h = "stop" /\ last.res = "noop"
    /\ m_state = "Stopped"
    /\ emitted = <<Log("Engine already stopped")>>

\* C5: stop() on a session that is initialized and Running or Stepping first
\* writes the stop command; terminate and kill come only after it.
C5_StopCommandFirst ==
    [][(CallOf("stop") /\ m_initialized /\ RunningOrStepping) =>
          (io' # <<>> /\ io'[1] = Write("stop", 0))]_vars

\* C6: a start() that launches sets currentTick to 0, and currentTick never
\* decreases from one step to the next while the state is Running or Stepping.
C6_TickNeverDecreases ==
    [][/\ (CallOf("start") /\ last'.res = "launched") => m_currentTick' = 0
       /\ (RunningOrStepping /\ RunningOrStepping') => m_currentTick' >= m_currentTick]_vars

\* C7: at most one init command is awaiting its answer, and a sendInit made
\* while initialized or pendingInit is true writes nothing and changes nothing.
C7_OneInitInFlight ==
    [][/\ inflight'.init <= 1
       /\ (CallOf("sendInit") /\ (m_initialized \/ m_initPending)) =>
             (io' = <<>> /\ UNCHANGED <<sessionVars, childVars>>)]_vars

\* C8: an init payload retained by a valid sendInit made in Idle, Stopped or
\* Starting is written, once, by the transport-ready notification that follows.
C8_RetainedInitSentWhenReady ==
    (last.h = "onProcessStarted" /\ last.res = "owed") =>
        (Count(io, IsInitWrite) = 1 /\ m_pendingConfig = Config(1, 1))

\* C9 as claimed: at the transport-ready notification in Starting, a pending
\* init is written at once and the session does not yet move to Running nor
\* emit Started; with no init pending it moves to Running and emits Started.
C9_RunningOnlyWithoutPendingInit ==
    [][(Runs("onProcessStarted") /\ m_state = "Starting") =>
          IF m_initPending
          THEN io' = <<Write("init", 0)>> /\ m_state' # "Running"
               /\ Count(emitted', IsStarted) = 0
          ELSE io' = <<>> /\ m_state' = "Running" /\ Count(emitted', IsStarted) = 1]_vars

\* C9 as amended: at the transport-ready notification in Starting, a pending
\* init is written at once and the session moves to Running without emitting
\* Started; with no init pending it moves to Running and emits Started.
C9_StartedOnlyWithoutPendingInit ==
    [][(Runs("onProcessStarted") /\ m_state = "Starting") =>
          /\ m_state' = "Running"
          /\ IF m_initPending
             THEN io' = <<Write("init", 0)>> /\ Count(emitted', IsStarted) = 0
             ELSE io' = <<>> /\ Count(emitted', IsStarted) = 1]_vars

\* The transport-ready notification has written a pending init.
C9_Witness ==
    /\ last.h = "onProcessStarted"
    /\ pc = "loop"
    /\ io = <<Write("init", 0)>>
    /\ m_initPending
    /\ m_state = "Running"
    /\ Count(emitted, IsStarted) = 0

C11_ErrorUntilStart ==
    [][(/\ m_state = "Error"
        /\ \/ last.h = "handleResponse" /\ last.res = "failure"
           \/ last.h = "onProcessError")
          => m_state' \notin {"Running", "Stepping"}]_vars

InvalidConfig(config) ==
    toInt(config.maxSteps, 0) <= 0 \/ toInt(config.populationSize, 0) <= 0

\* C13 as claimed: every sendInit whose maxSteps or populationSize is missing
\* or <= 0 emits an Error, writes no init command, leaves pendingInit false and
\* initialized unchanged, so that a valid sendInit made next is not skipped.
C13_InvalidInitFails ==
    [][(CallOf("sendInit") /\ InvalidConfig(last'.cfg)) =>
          /\ Len(Errors(emitted')) = 1
          /\ io' = <<>>
          /\ ~m_initPending'
          /\ m_initialized' = m_initialized
          /\ sendInitOutcome(Cur', Config(1, 1)) # "rejected"]_vars

\* C13 as amended: a sendInit whose maxSteps or populationSize is missing or
\* <= 0, made when the session is neither initialized nor waiting for an init,
\* emits one Error naming the field, writes nothing, leaves pendingInit false
\* and initialized unchanged, so that a valid sendInit made next is not
\* skipped; made when the session is initialized or waiting for an init, it is
\* skipped like any other sendInit: one log message, no Error, no change.
C13_InvalidInitFailsUnlessSkipped ==
    [][(CallOf("sendInit") /\ InvalidConfig(last'.cfg)) =>
          IF m_initialized \/ m_initPending
          THEN /\ Len(emitted') = 1
               /\ emitted'[1].sig = "logMessage"
               /\ io' = <<>>
               /\ UNCHANGED <<m_state, m_currentTick, m_initialized, m_initPending, childVars>>
          ELSE /\ Errors(emitted') =
                    <<Error(IF toInt(last'.cfg.maxSteps, 0) <= 0
                            THEN "Invalid configuration: maxSteps"
                            ELSE "Invalid configuration: populationSize")>>
               /\ io' = <<>>
               /\ ~m_initPending'
               /\ m_initialized' = m_initialized
               /\ sendInitOutcome(Cur', Config(1, 1)) # "rejected"]_vars

\* A sendInit with populationSize 0 has just failed in a session whose child
\* is open and which was neither initialized nor waiting for an init.
C13_Witness ==
    /\ last.h = "sendInit"
    /\ last.res = "invalid"
    /\ last.cfg = Config(1, 0)
    /\ processState = "Running"
    /\ Errors(emitted) = <<Error("Invalid configuration: populationSize")>>
    /\ ~m_initPending
    /\ io = <<>>

StepRejected == ~m_initialized \/ ~RunningOrStepping \/ last'.n <= 0

\* C14 as claimed: a sendInit rejected for an invalid configuration and a
\* sendStep rejected for a violated precondition leave the lifecycle state as
\* it was.
C14_ValidationKeepsState ==
    [][(\/ CallOf("sendInit") /\ last'.res = "invalid"
        \/ CallOf("sendStep") /\ StepRejected)
          => m_state' = m_state]_vars

\* C14 as amended: a sendStep rejected for a violated precondition emits one
\* Error and leaves the lifecycle state as it was; a sendInit rejected for an
\* invalid configuration emits one Error and puts the session in Error,
\* whatever its state was, with pendingInit false, and with the tick,
\* initialized and the child as they were.
C14_InvalidInitEndsInError ==
    [][/\ (CallOf("sendStep") /\ StepRejected) =>
            /\ Len(Errors(emitted')) = 1
            /\ m_state' = m_state
       /\ (CallOf("sendInit") /\ last'.res = "invalid") =>
            /\ Len(Errors(emitted')) = 1
            /\ m_state' = "Error"
            /\ ~m_initPending'
            /\ UNCHANGED <<m_currentTick, m_initialized, childVars>>]_vars

\* A sendInit without maxSteps has just moved a session with an open child
\* from another state to Error.
C14_Witness ==
    /\ last.h = "sendInit"
    /\ last.res = "invalid"
    /\ last.cfg = EmptyConfig
    /\ processState = "Running"
    /\ m_state = "Error"
    /\ emitted = <<Log("Init requested"), Error("Invalid configuration: maxSteps"),
                   StateChanged("Error")>>

IsWorkflowEvent(e) == e.sig \in {"started", "stepped", "snapshotReceived", "stopped"}

\* C15: when the full scripted run (start, init(valid), step(1), snapshot, stop,
\* each answered with success, the step with a tick > 0) has ended and the
\* child is gone, the Started, Stepped, Snapshot and Stopped events emitted
\* since start() are exactly Started, Stepped(tick > 0), Snapshot, Stopped, in
\* that order.
C15_FullWorkflowEvents ==
    (stage = "stopped" /\ processState = "NotRunning") =>
        \E t \in 1..MaxTick :
            SelectSeq(lifecycle, IsWorkflowEvent) =
                <<Started, Stepped(t), SnapshotReceived, Stopped>>

\* C16: in a run where the first frame delivered after the child has started
\* is the failure "boom", exactly one Error("boom") has been emitted and no
\* Started.
C16_RefusedRunEvents ==
    stage = "refused" =>
        /\ Errors(lifecycle) = <<Error("boom")>>
        /\ Count(lifecycle, IsStarted) = 0

\* The complete lines of a text: what stands before each line end, trimmed,
\* the empty ones left out.
RECURSIVE linesOf(_)
linesOf(str) ==
    LET pos == indexOf(str, LF)
    IN IF pos = 0 THEN <<>>
       ELSE LET line == trimmed(SubSeq(str, 1, pos - 1))
            IN (IF line = <<>> THEN <<>> ELSE <<line>>)
               \o linesOf(SubSeq(str, pos + 1, Len(str)))

Malformed(line) == fromJson(line).kind # "object"
DecodeError(line) ==
    Error(IF fromJson(line).kind = "error" THEN "JSON parse error"
          ELSE "Expected JSON object from engine")
IsDecodeError(e) ==
    e \in {Error("JSON parse error"), Error("Expected JSON object from engine")}
IsDecodeErrorOrStepped(e) == IsDecodeError(e) \/ e.sig = "stepped"

Overflow == Error("Line buffer overflow - possible protocol error")
IsOverflow(e) == e = Overflow

\* C18: after every read the line buffer holds no line end and is no longer
\* than the ceiling; a read without a line end that takes the buffer past the
\* ceiling empties it and emits exactly one overflow Error and nothing else,
\* leaving state, initialized, pendingInit and currentTick as they were; a
\* read without a line end that stays within the ceiling is appended to the
\* buffer and emits nothing.
C18_BufferBounded ==
    [][Runs("onReadyReadStdOut") =>
         /\ indexOf(m_lineBuffer', LF) = 0
         /\ Len(m_lineBuffer') <= Ceiling
         /\ Count(emitted', IsOverflow) <= 1
         /\ last'.res = "partial" =>
              \A text \in {m_lineBuffer \o fromUtf8(last'.data)} :
                 /\ UNCHANGED <<m_state, m_initialized, m_initPending, m_currentTick>>
                 /\ IF Len(text) > Ceiling
                    THEN m_lineBuffer' = <<>> /\ emitted' = <<Overflow>>
                    ELSE m_lineBuffer' = text /\ emitted' = <<>>]_vars

\* A read has just taken the buffer of a Running, initialized session past the
\* ceiling: the buffer is empty and the overflow Error is the only event.
C18_Witness ==
    /\ last.h = "onReadyReadStdOut"
    /\ last.res = "partial"
    /\ emitted = <<Overflow>>
    /\ m_lineBuffer = <<>>
    /\ m_state = "Running"
    /\ m_initialized

\* The byte lines of a stream, the unfinished one included.
RECURSIVE byteLines(_)
byteLines(bytes) ==
    LET pos == indexOf(bytes, LF)
    IN IF pos = 0 THEN <<bytes>>
       ELSE <<SubSeq(bytes, 1, pos - 1)>> \o byteLines(SubSeq(bytes, pos + 1, Len(bytes)))

WithinCeiling(bytes) ==
    \A i \in 1..Len(byteLines(bytes)) : Len(byteLines(bytes)[i]) <= Ceiling

\* The session after one read of bytes made with an empty buffer.
SingleRead(bytes) ==
    IF bytes = <<>> THEN [Entry EXCEPT !.m_lineBuffer = <<>>]
    ELSE onReadyReadStdOut([Entry EXCEPT !.m_lineBuffer = <<>>], bytes)

\* C19: after each read of a stream whose lines stay within the ceiling, the
\* lines dispatched since the launch and the buffered part of the unfinished
\* line are those of a single read of all the bytes read since the launch: the
\* lines this read dispatched are exactly those the single read adds to the
\* lines of the bytes read before, and the buffer is the single read's buffer.
C19_SplitReadsAsOneRead ==
    [][(Runs("onReadyReadStdOut") /\ last'.res = "stream" /\ WithinCeiling(fed')) =>
         \A one \in {SingleRead(fed')}, before \in {SingleRead(fed)} :
            /\ one.dispatched = before.dispatched \o dispatched'
            /\ m_lineBuffer' = one.m_lineBuffer]_vars

\* C20: a frame with success true handled while the state is Starting, whatever
\* its operation, leaves the session in Running.
C20_SuccessFramePromotes ==
    [][(Runs("handleResponse") /\ last'.res # "failure" /\ m_state = "Starting")
          => m_state' = "Running"]_vars

\* C21: while the step commands of a burst are being sent, each of them has
\* been written and awaits its answer; once the child has answered all k of
\* them, the answers have emitted at least k Stepped, the session is Running
\* and currentTick is at least k past the tick it had before the burst.
C21_BurstOfSteps ==
    /\ (burst.sent > 0 /\ burst.answered = 0) => inflight.step = burst.sent
    /\ (burst.sent > 0 /\ burst.answered = burst.sent) =>
          /\ burst.stepped >= burst.sent
          /\ m_state = "Running"
          /\ m_currentTick >= burst.from + burst.sent

\* Two step commands were sent back to back and both have been answered.
C21_Witness ==
    /\ burst.sent >= 2
    /\ burst.answered = burst.sent
    /\ last.h = "handleResponse"
    /\ m_state = "Running"

\* The entries a buffer retains, oldest first.
Retained(b) == [i \in 1..b.m_size |-> b.m_buffer[actualIdx(b, i - 1)]]
\* The step is a write that the buffer kept.
KeptWrite == called'.op \in {"addSnapshot", "addMetrics"} /\ notified' # <<>>

\* C22: in every state reached by any sequence of addSnapshot, addMetrics,
\* setMaxCapacity, setDownsampleInterval and clear, 0 <= size <= capacity and
\* the write cursor is a slot of the ring (0 <= head < capacity); a write kept
\* by a buffer whose size equals its capacity leaves the size the same and
\* evicts the oldest retained entry and no other.
C22_RingWithinBounds ==
    /\ 0 <= m_size /\ m_size <= m_maxCapacity
    /\ 0 <= m_head /\ m_head < m_maxCapacity
    /\ [][/\ 0 <= m_size' /\ m_size' <= m_maxCapacity'
          /\ 0 <= m_head' /\ m_head' < m_maxCapacity'
          /\ DOMAIN m_buffer' = 0..(m_maxCapacity' - 1)
          /\ (KeptWrite /\ isFull(BufCur)) =>
                /\ m_size' = m_size
                /\ SubSeq(Retained(BufCur'), 1, m_size - 1) = Tail(Retained(BufCur))
                /\ Retained(BufCur')[m_size].step = called'.arg]_vars

\* A full ring of two or more slots, resized while it held entries, has kept
\* a write.
C22_Witness ==
    /\ called.op \in {"addSnapshot", "addMetrics"}
    /\ notified = <<snapshotAdded(called.arg), bufferWrapped>>
    /\ m_maxCapacity >= 2 /\ m_size = m_maxCapacity
    /\ ~written.fresh

\* Every write since the buffer was constructed or cleared was kept: they were
\* made with downsample interval 1, and nothing but writes and reads came
\* between; there are as many as the capacity or more.
FilledUnsampled ==
    /\ written.fresh
    /\ m_downsampleInterval = 1
    /\ Len(written.writes) >= m_maxCapacity
\* The payloads of the last n writes, in write order.
LastWritten(n) ==
    [i \in 1..n |-> written.writes[Len(written.writes) - n + i].data]

\* C23: after c + k writes (k >= 0) with downsample interval 1 on a fresh
\* buffer of capacity c, size() is c, getAllSnapshots() returns the payloads
\* of the last c writes, oldest first, getSnapshotAt(0) the oldest of them and
\* getLatestSnapshot() the newest.
C23_LastWritesRetained ==
    FilledUnsampled =>
        /\ called.op = "size" => called.value = m_maxCapacity
        /\ called.op = "getAllSnapshots" => called.value = LastWritten(m_maxCapacity)
        /\ (called.op = "getSnapshotAt" /\ called.arg = 0) =>
              called.value = LastWritten(m_maxCapacity)[1]
        /\ called.op = "getLatestSnapshot" => called.value = LastWritten(1)[1]

\* All snapshots have been read from a ring of two or more slots that was
\* written two times more than it has slots.
C23_Witness ==
    /\ FilledUnsampled
    /\ m_maxCapacity >= 2
    /\ Len(written.writes) >= m_maxCapacity + 2
    /\ called.op = "getAllSnapshots"
    /\ Len(called.value) = m_maxCapacity

\* C24: after setDownsampleInterval(m), m >= 1, on an empty buffer whose
\* capacity suffices, writing N entries one after the other retains
\* ceil(N / m) of them: the writes numbered 0, m, 2m, ..., the first write
\* among them.
C24_EveryMthWriteRetained ==
    LET N == Len(written.writes)
        m == m_downsampleInterval
        n == (N + m - 1) \div m
    IN (written.fresh /\ n <= m_maxCapacity) =>
          /\ m_size = n
          /\ Retained(BufCur) = [i \in 1..n |-> written.writes[(i - 1) * m + 1]]

\* C25: setMaxCapacity(n) with n >= 1 on a buffer holding size entries, in any
\* position of the ring, leaves the newest min(size, n) entries in the order
\* they had, discarding the oldest ones when it shrinks; with n < 1 it changes
\* neither the capacity nor the size nor the contents.
C25_ResizeKeepsNewest ==
    [][called'.op = "setMaxCapacity" =>
          \A n \in {called'.arg} : \A kept \in {min(m_size, n)} :
             IF n >= 1
             THEN /\ m_maxCapacity' = n
                  /\ m_size' = kept
                  /\ Retained(BufCur') = SubSeq(Retained(BufCur), m_size - kept + 1, m_size)
             ELSE /\ m_maxCapacity' = m_maxCapacity
                  /\ m_size' = m_size
                  /\ Retained(BufCur') = Retained(BufCur)
                  /\ m_buffer' = m_buffer /\ m_head' = m_head]_vars

\* A ring written more times than it had slots has been shrunk to the two
\* newest of its entries.
C25_Witness ==
    /\ called.op = "setMaxCapacity"
    /\ called.value > called.arg
    /\ called.arg = 2
    /\ m_maxCapacity = 2 /\ m_size = 2
    /\ m_downsampleInterval = 1
    /\ written.count > called.value
    /\ Retained(BufCur)[1].step = written.count - 2
    /\ Retained(BufCur)[2].step = written.count - 1

\* The step is a write, and what it wrote is now the newest retained entry.
IsWrite == called'.op \in {"addSnapshot", "addMetrics"}
Stored == m_size' > 0 /\ Retained(BufCur')[m_size'].step = called'.arg

\* C26: a write that is kept emits one snapshotAdded carrying the step of
\* the entry, followed by bufferWrapped when and only when the write evicts an
\* entry; a write dropped by downsampling emits nothing and leaves the size
\* and the contents as they were; no other operation emits either signal.
C26_WriteNotifications ==
    [][/\ (IsWrite /\ Stored) =>
             notified' = <<snapshotAdded(called'.arg)>>
                           \o (IF m_size = m_maxCapacity THEN <<bufferWrapped>> ELSE <<>>)
       /\ (IsWrite /\ ~Stored) =>
             /\ notified' = <<>>
             /\ m_size' = m_size
             /\ Retained(BufCur') = Retained(BufCur)
       /\ ~IsWrite =>
             \A i \in 1..Len(notified') :
                 notified'[i].sig \notin {"snapshotAdded", "bufferWrapped"}]_vars

\* Under downsampling, a write has been dropped by a full ring that had
\* evicted an entry for an earlier write.
C26_Witness ==
    /\ called.op \in {"addSnapshot", "addMetrics"}
    /\ notified = <<>>
    /\ m_downsampleInterval = 2 /\ m_downsampleCounter = 1
    /\ m_size = m_maxCapacity
    /\ written.fresh /\ Len(written.writes) >= 2 * m_maxCapacity + 3

\* The key names of a path whose separators stand between them.
KeysOf(path) == LET IsKey(t) == t # Dot IN SelectSeq(path, IsKey)
\* The value found in data by following keys, null when a key is missing or
\* what it is looked up in is not an object.
RECURSIVE Resolve(_, _)
Resolve(data, keys) ==
    IF keys = <<>> THEN data
    ELSE IF data.kind # "object" \/ Head(keys) \notin {k[1] : k \in DOMAIN data.val} THEN JNull
    ELSE Resolve(data.val[<<Head(keys)>>], Tail(keys))
\* The number a resolved value stands for, 0 when it stands for none.
NumberOf(v) ==
    IF v.kind = "double" THEN v.val
    ELSE IF v = JString(<<"1", "2">>) THEN 12
    ELSE 0

\* C27: getTimeSeriesData(path, fromSeq, toSeq) returns one point for each
\* retained entry whose step lies in fromSeq..toSeq and for no other, in
\* storage order; an entry whose payload lacks the path, or has a value that
\* is not an object on the way, gives a point of value 0 and is not left out.
C27_SeriesOfRetainedEntries ==
    called.op = "getTimeSeriesData" =>
        \A q \in {called.arg} :
           LET InRange(e) == q.startStep <= e.step /\ e.step <= q.endStep
               entries == SelectSeq(Retained(BufCur), InRange)
           IN called.value =
                 [i \in 1..Len(entries) |->
                     DataPoint(entries[i].step,
                               NumberOf(Resolve(entries[i].data, KeysOf(q.metricPath))))]

\* A series was read over steps 1..2 of a ring holding steps 0, 1 and 2: the
\* payload of step 1 has a number where the path needs an object.
C27_Witness ==
    /\ called.op = "getTimeSeriesData"
    /\ called.arg = [metricPath |-> MetricPath, startStep |-> 1, endStep |-> 2]
    /\ called.value = <<DataPoint(1, 0), DataPoint(2, 3)>>
    /\ m_size = 3

\* C28: the buffer does not hold its mutex while a signal is delivered: when
\* snapshotAdded, bufferWrapped or bufferCleared is emitted the mutex is free,
\* so a slot that calls any public operation of the buffer from inside the
\* emit is never left waiting for a mutex its own thread holds.
C28_EmitsWithMutexFree ==
    \A t \in Threads :
        threads[t] # <<>> =>
            /\ Emitting(t) => m_mutex = Free
            /\ At(t) = "lock" => t \notin m_mutex

\* Inside the emit of snapshotAdded a slot has called a write, which holds the
\* mutex.
C28_Witness ==
    /\ Len(threads[Writer]) = 2
    /\ Body(threads[Writer][1].op)[threads[Writer][1].pc] = "emitAdded"
    /\ threads[Writer][2].op \in WriteOps
    /\ threads[Writer][2].locked
    /\ m_mutex = {Writer}

\* C29: with one writer thread and the reader threads running side by side,
\* every read (size, getLatestSnapshot, getSnapshotAt, getAllSnapshots,
\* getTimeSeriesData, getStepRange) returns what the buffer held at one
\* instant at which no write, resize or clear was half applied: the state the
\* writer last left it in when it let go of the mutex.
C29_ReadsSeeWholeOperations ==
    \A t \in Threads :
        (threads[t] # <<>> /\ Top(t).op \in ReadOps) =>
            /\ Top(t).locked => Stable(BufCur) = stable
            /\ At(t) = "return" => Top(t).value = Result(Top(t).op, Top(t).arg, stable)

\* A reader has walked a full ring of two entries while the writer, which
\* has just evicted an entry, has its signals still to emit.
C29_Witness ==
    /\ threads[2] # <<>> /\ threads[Writer] # <<>>
    /\ Top(2).op = "getAllSnapshots" /\ At(2) = "return" /\ Len(Top(2).value) = 2
    /\ Top(Writer).op = "addSnapshot" /\ At(Writer) = "emitAdded" /\ Top(Writer).flag

\* The socket went back to UnconnectedState without disconnect() having
\* closed it: the step is a disconnect nobody on this side asked for.
UnexpectedDisconnect ==
    /\ handled' = Handled("onDisconnected", "lost")
    /\ m_socket # "UnconnectedState"

Emitted(name) == \E i \in DOMAIN signalled : signalled[i] = Signal(name)

\* C30: on an unexpected disconnect, if auto-reconnect is enabled and fewer
\* than MAX_RECONNECT_ATTEMPTS attempts have been made, a reconnect is
\* scheduled (the attempt is counted and the reconnect timer started);
\* otherwise connectionFailed is emitted.
C30_ReconnectOrConnectionFailed ==
    [][UnexpectedDisconnect =>
          IF m_autoReconnect /\ m_reconnectAttempts < MAX_RECONNECT_ATTEMPTS
          THEN /\ m_reconnectTimer'
               /\ m_reconnectAttempts' = m_reconnectAttempts + 1
               /\ ~Emitted("connectionFailed")'
          ELSE Emitted("connectionFailed")']_vars

\* C31: after an open connection has been lost, with auto-reconnect enabled
\* and a peer that never comes back, connectionFailed is emitted at most
\* once, and when it is emitted the socket has been re-opened exactly
\* MAX_RECONNECT_ATTEMPTS times, however the socket reports each failure.
C31_FiveAttemptsThenOneFailure ==
    outage.lost =>
        /\ outage.failed <= 1
        /\ outage.failed = 1 => outage.reopened = MAX_RECONNECT_ATTEMPTS

\* C33: a command other than ping issued through the public interface while
\* disconnected is appended to the message buffer (to be transmitted after
\* the next connection), and a ping issued while disconnected is dropped
\* silently: nothing is buffered, transmitted or emitted.
C33_CommandsBufferedPingsDropped ==
    [][/\ (handled'.h = "command" /\ ~m_connected) =>
              /\ m_messageBuffer' = Append(m_messageBuffer, handled'.arg)
              /\ signalled' = <<>>
       /\ (handled'.h = "sendPing" /\ ~m_connected) =>
              /\ m_messageBuffer' = m_messageBuffer
              /\ signalled' = <<>>]_vars

\* The types of the messages in a sequence of signals and messages, in order.
RECURSIVE transmitted(_)
transmitted(signals) ==
    IF signals = <<>> THEN <<>>
    ELSE (IF Head(signals).sig = "sendTextMessage" THEN <<Head(signals).type>> ELSE <<>>)
         \o transmitted(Tail(signals))

Scheduled == m_reconnectAttempts' > m_reconnectAttempts

\* C34 as stated: once server:shutdown has been received, no later step
\* schedules a reconnect attempt, and auto-reconnect stays disabled.
C34_NoReconnectAfterShutdown ==
    [][outage.shutdown => (~Scheduled /\ ~m_autoReconnect')]_vars

\* C34, amended: once server:shutdown has been received, and as long as the
\* application has not called setAutoReconnect(true) since, auto-reconnect is
\* disabled and no disconnect or socket error schedules a reconnect attempt,
\* also after a later connectToEngine on the same object.
C34_NoReconnectAfterShutdownUnlessReenabled ==
    [][(outage.shutdown' /\ ~outage.reenabled') =>
          /\ ~m_autoReconnect'
          /\ outage.shutdown => ~Scheduled]_vars

\* After server:shutdown the application has connected again and that
\* connection, or the attempt, has ended in a disconnect nobody asked for.
C34_Witness ==
    /\ outage.shutdown /\ ~outage.reenabled /\ outage.again
    /\ handled = Handled("onDisconnected", "lost")
    /\ ~m_reconnectTimer

\* C35 (EngineInterface): after disconnect() has been called, and until
\* connectToEngine is called again, no step sends a heartbeat ping, schedules
\* a reconnect attempt or re-opens the socket, the delivery of the socket's
\* disconnected notification included.
C35_QuietAfterDisconnect ==
    [][(outage.closed /\ handled'.h # "connectToEngine") =>
          /\ ~Scheduled
          /\ ~m_reconnectTimer'
          /\ handled'.h # "onReconnectTimeout"
          /\ count(signalled', Sent("ping")) = 0]_vars

\* C36: whenever the lifecycle state is Error, the session is neither
\* initialized nor has an init pending, by whichever path it came to Error.
C36_ErrorHasNoInit ==
    m_state = "Error" => (~m_initialized /\ ~m_initPending)

\* C37: in a run followed from its start() call, and until the session reaches
\* Stopped or Error, the Started event is emitted at most once, whether the
\* init was requested before the child had started or after.
C37_StartedAtMostOnce ==
    stage \notin {"off", "refused", "stopping", "stopped"} =>
        Count(lifecycle, IsStarted) <= 1

\* C38: when the session rests in Idle or Stopped while the child process is
\* still running (the child acknowledged a stop command and kept running), a
\* stop() made then still goes on to terminate the process, and a start() made
\* then launches a fresh process.
C38_LiveChildStillStoppedOrReplaced ==
    [][(pc = "loop" /\ m_state \in {"Idle", "Stopped"} /\ processState = "Running") =>
          /\ last'.h = "stop" => (pc' # "loop" \/ processState' # "Running")
          /\ (last'.h = "start" /\ last'.res = "launched") => processState' = "Starting"]_vars

\* C39: with downsample interval 1, after any interleaving of addSnapshot,
\* setMaxCapacity(n), n >= 1, and clear, the entries the buffer retains are
\* those of the abstract list, in its order, and getAllSnapshots() returns
\* their payloads; the capacity is the list's.
C39_RefinesBoundedList ==
    written.cap > 0 =>
        /\ m_maxCapacity = written.cap
        /\ Retained(BufCur) = written.list
        /\ getAllSnapshots(BufCur) = [i \in 1..Len(written.list) |-> written.list[i].data]
        /\ called.op = "getAllSnapshots" =>
              called.value = [i \in 1..Len(written.list) |-> written.list[i].data]

\* All snapshots have been read from a ring of two or more slots whose
\* capacity was changed while it held entries, and which has been written
\* more times than it has slots since.
C39_Witness ==
    /\ written.cap >= 2
    /\ written.resized
    /\ written.since > m_maxCapacity
    /\ called.op = "getAllSnapshots"
    /\ Len(called.value) = m_maxCapacity

====
